---- MODULE Spec2Model ----
(***************************************************************************)
(* Model of the aggregation pipeline front end of cwestin/mongo:           *)
(*   - DocumentSourceCursor (db/commands/document_source_cursor.cpp)       *)
(*   - PipelineD::prepareCursorSource (db/commands/pipeline_d.cpp)         *)
(*   - DependencyTracker (db/pipeline/dependency_tracker.cpp)              *)
(* Every public method is one atomic action; exceptions are modelled by    *)
(* the field "thrown" of the call record, which stops all later code of    *)
(* the call.                                                               *)
(***************************************************************************)
EXTENDS Integers, Sequences, FiniteSets, TLC

VARIABLES
    scan,         \* the positions the physical Cursor will visit, in order
    hasMatcher,   \* pCursor->matcher() != NULL
    pos,          \* pCursor's position in scan; Len(scan)+1 when !ok()
    dups,         \* the record ids pCursor->getsetdup() has been given
    pCurrent,     \* DocumentSourceCursor::pCurrent (NULL when reset)
    interrupted,  \* the interrupt flag checked by DocumentSource::advance()
    surfaced,     \* history: every document assigned to pCurrent, in order
    seen,         \* history: the documents current at a normal return
    lastCall,     \* history: the last public call, its outcome, its pre-state
    mode,         \* history: the calling pattern of the consumer so far
    invalidated,  \* history: has a call failed with CursorInvalidated
    pSources,     \* Pipeline::sourceVector
    plan,         \* outcome of PipelineD::prepareCursorSource
    tracker,      \* a DependencyTracker: openSet and map
    trackerLog,   \* history: the calls that changed the tracker, in order
    lastTrackerCall, \* history: the last call on the tracker and its outcome
    fp,           \* a FieldPath object: its vFieldName, once constructed
    lastPathCall, \* history: the last call on a FieldPath and its outcome
    provenance,   \* DocumentSourceCursor: ns, pQuery, pSelect, pSort,
                  \* pDependencies
    handles       \* DocumentSourceCursor: is pClientCursor, is pCursor set;
                  \* history: the handles released, in order; the object

cursorVars == <<scan, hasMatcher, pos, dups, pCurrent, interrupted,
                surfaced, seen, lastCall, mode, invalidated, provenance,
                handles>>
plannerVars == <<pSources, plan>>
trackerVars == <<tracker, trackerLog, lastTrackerCall>>
pathVars == <<fp, lastPathCall>>
vars == <<scan, hasMatcher, pos, dups, pCurrent, interrupted,
          surfaced, seen, lastCall, mode, invalidated, pSources, plan,
          tracker, trackerLog, lastTrackerCall, fp, lastPathCall,
          provenance, handles>>

(***************************************************************************)
(* Bounds                                                                  *)
(***************************************************************************)
MaxLen == 3
MaxRid == 2
MaxStages == 3
MaxOps == 3
MaxSource == 2
MaxRegistered == 2
MaxStr == 3
HashBits == 16
MaxKeep == 1

(***************************************************************************)
(* Values                                                                  *)
(***************************************************************************)
NULL == [rid |-> 0, pos |-> 0]
NoError == "none"
Rids == 1..MaxRid
Positions == [rid : Rids, passes : BOOLEAN]

RECURSIVE SeqsUpTo(_, _)
SeqsUpTo(S, n) ==
    IF n = 0 THEN {<<>>}
    ELSE LET shorter == SeqsUpTo(S, n - 1)
         IN  shorter \cup {Append(s, x) : s \in {t \in shorter : Len(t) = n - 1}, x \in S}

\* R1..R6, the predicate matches the even records, R2's position is revisited
ExampleScan ==
    << [rid |-> 1, passes |-> FALSE], [rid |-> 2, passes |-> TRUE],
       [rid |-> 3, passes |-> FALSE], [rid |-> 2, passes |-> TRUE],
       [rid |-> 4, passes |-> TRUE],  [rid |-> 5, passes |-> FALSE],
       [rid |-> 6, passes |-> TRUE] >>

Scans == SeqsUpTo(Positions, MaxLen) \cup {ExampleScan}

(***************************************************************************)
(* The physical scan (class Cursor) and its ClientCursor                   *)
(***************************************************************************)
\* A member function runs on the object as it is at the call.  Where a
\* definition below reads CHOOSE r \in {e : c \in {frame}} : TRUE, its value
\* is e with c the value of frame, taken once.

ok(c) == c.pos <= Len(scan)

currLoc(c) == scan[c.pos].rid

matchesCurrent(c) == scan[c.pos].passes

current(c) == [rid |-> scan[c.pos].rid, pos |-> c.pos]

\* test-and-set of the record id; the answer is left in c.isdup
getsetdup(c, loc) ==
    [c EXCEPT !.isdup = (loc \in c.dups), !.dups = c.dups \cup {loc}]

cursorAdvance(c) == [c EXCEPT !.pos = c.pos + 1, !.steps = c.steps + 1]

\* the failAt-th yield of the call finds the collection or database gone
yieldSometimes(frame) ==
    CHOOSE r \in {
        [c EXCEPT !.yields = c.yields + 1,
                  !.cursorOk = (c.failAt # c.yields + 1),
                  !.yieldFailed = c.yieldFailed \/ (c.failAt = c.yields + 1)]
        : c \in {frame}} : TRUE

checkForInterrupt(c) ==
    IF interrupted THEN [c EXCEPT !.thrown = "Interrupted"] ELSE c

(***************************************************************************)
(* DocumentSourceCursor                                                    *)
(***************************************************************************)
\* mutant: the scan is stepped without the call of yieldSometimes
advanceAndYield_NoYield(frame) ==
    CHOOSE r \in {
        cursorAdvance(c)
        : c \in {frame}} : TRUE

\* mutant: the result of the yield is not looked at
advanceAndYield_IgnoreYield(frame) ==
    CHOOSE r \in {
        yieldSometimes(cursorAdvance(c))
        : c \in {frame}} : TRUE

advanceAndYield(frame) ==
    CHOOSE r \in {
        LET c1 == yieldSometimes(cursorAdvance(c))
        IN  IF ~c1.cursorOk
            THEN [c1 EXCEPT !.thrown = "CursorInvalidated"]
            ELSE c1
        : c \in {frame}} : TRUE

\* mutant: the dedup guard is left out of the condition
matchAndDedup_NoDedup(c) ==
    [c EXCEPT !.take = (~hasMatcher \/ matchesCurrent(c))]

\* mutant: the residual predicate is left out of the condition
matchAndDedup_NoMatcher(c) ==
    LET c1 == getsetdup(c, currLoc(c))
    IN  [c1 EXCEPT !.take = ~c1.isdup]

\* mutant: getsetdup is evaluated first, for every position
matchAndDedup_DedupFirst(c) ==
    LET c1 == getsetdup(c, currLoc(c))
    IN  [c1 EXCEPT !.take = ~c1.isdup /\ (~hasMatcher \/ matchesCurrent(c))]

\* the condition of the if in findNext, with C++ short-circuit evaluation:
\* getsetdup runs only when the matcher is absent or accepts the position
matchAndDedup(c) ==
    IF ~hasMatcher \/ matchesCurrent(c)
    THEN LET c1 == getsetdup(c, currLoc(c))
         IN  [c1 EXCEPT !.take = ~c1.isdup]
    ELSE [c EXCEPT !.take = FALSE]

\* Document::createFromBsonObj: a new Document with the fields of the BSON
\* object is added to the documents made so far, which stay as they are
createFromBsonObj(documents, documentObj) == Append(documents, documentObj)

\* mutant: the Document that is current is filled again with the new fields
materialize_InPlace(c) ==
    [c EXCEPT !.pCurrent = current(c),
              !.surfaced = IF c.pCurrent = NULL
                           THEN createFromBsonObj(c.surfaced, current(c))
                           ELSE [c.surfaced EXCEPT ![Len(c.surfaced)] = current(c)]]

materialize(c) ==
    [c EXCEPT !.pCurrent = current(c),
              !.surfaced = createFromBsonObj(c.surfaced, current(c))]

RECURSIVE findNextLoop(_)

findNextLoop(frame) ==
    CHOOSE r \in {
        IF ~ok(c) THEN [c EXCEPT !.pCurrent = NULL]
        ELSE LET c1 == matchAndDedup(c)
             IN  IF c1.take
                 THEN advanceAndYield(materialize(c1))
                 ELSE LET c2 == advanceAndYield(c1)
                      IN  IF c2.thrown # NoError THEN c2 ELSE findNextLoop(c2)
        : c \in {frame}} : TRUE

\* mutant: the current document is dropped before the loop, not after it
findNext_ResetFirst(frame) ==
    CHOOSE r \in {
        IF c.thrown # NoError THEN c
        ELSE findNextLoop([c EXCEPT !.fetches = c.fetches + 1, !.pCurrent = NULL])
        : c \in {frame}} : TRUE

\* mutant: a failed yield is taken for the end of the scan
findNext_SwallowInvalidated(frame) ==
    CHOOSE r \in {
        IF c.thrown # NoError THEN c
        ELSE LET r == findNextLoop([c EXCEPT !.fetches = c.fetches + 1])
             IN  IF r.thrown = "CursorInvalidated"
                 THEN [r EXCEPT !.thrown = NoError, !.pCurrent = NULL]
                 ELSE r
        : c \in {frame}} : TRUE

\* mutant: the current document is kept when the scan has run out
findNext_KeepCurrent(frame) ==
    CHOOSE r \in {
        IF c.thrown # NoError THEN c
        ELSE LET r == findNextLoop([c EXCEPT !.fetches = c.fetches + 1])
             IN  IF r.thrown = NoError /\ r.pCurrent = NULL
                 THEN [r EXCEPT !.pCurrent = c.pCurrent]
                 ELSE r
        : c \in {frame}} : TRUE

findNext(frame) ==
    CHOOSE r \in {
        IF c.thrown # NoError THEN c
        ELSE findNextLoop([c EXCEPT !.fetches = c.fetches + 1])
        : c \in {frame}} : TRUE

eof(c) ==
    LET c1 == IF c.pCurrent = NULL THEN findNext(c) ELSE c
    IN  [c1 EXCEPT !.retBool = (c1.pCurrent = NULL)]

\* mutant: the extra first fetch is made whether or not a document is current
advance_DoubleFetch(c) ==
    LET c0 == checkForInterrupt(c)
        c1 == findNext(c0)
        c2 == findNext(c1)
    IN  [c2 EXCEPT !.retBool = (c2.pCurrent # NULL)]

\* mutant: the first fetch of a cursor without a current document is left out
advance_SingleFetch(c) ==
    LET c0 == checkForInterrupt(c)
        c2 == findNext(c0)
    IN  [c2 EXCEPT !.retBool = (c2.pCurrent # NULL)]

\* mutant: the base class advance(), which checks for interrupts, is not called
advance_NoInterruptCheck(c) ==
    LET c1 == IF c.pCurrent = NULL THEN findNext(c) ELSE c
        c2 == findNext(c1)
    IN  [c2 EXCEPT !.retBool = (c2.pCurrent # NULL)]

advance(c) ==
    LET c0 == checkForInterrupt(c)
        c1 == IF c0.thrown = NoError /\ c0.pCurrent = NULL
              THEN findNext(c0) ELSE c0
        c2 == findNext(c1)
    IN  [c2 EXCEPT !.retBool = (c2.pCurrent # NULL)]

\* mutant: getCurrent fetches on every call
getCurrent_AlwaysFetch(c) ==
    LET c1 == findNext(c)
    IN  [c1 EXCEPT !.retDoc = c1.pCurrent]

getCurrent(c) ==
    LET c1 == IF c.pCurrent = NULL THEN findNext(c) ELSE c
    IN  [c1 EXCEPT !.retDoc = c1.pCurrent]

(***************************************************************************)
(* Calls                                                                   *)
(***************************************************************************)
\* the frame of a call: the object's fields plus the locals of the call
Enter(failAt) ==
    [pos |-> pos, dups |-> dups, pCurrent |-> pCurrent, surfaced |-> surfaced,
     failAt |-> failAt, yields |-> 0, steps |-> 0, fetches |-> 0,
     cursorOk |-> TRUE, isdup |-> FALSE, take |-> FALSE,
     thrown |-> NoError, yieldFailed |-> FALSE,
     retBool |-> FALSE, retDoc |-> NULL]

NoCall ==
    [op |-> "none", status |-> NoError, retBool |-> FALSE, retDoc |-> NULL,
     yields |-> 0, steps |-> 0, fetches |-> 0, yieldFailed |-> FALSE]

\* fresh: no call yet; advanceOnly: only advance() so far; readFirst: eof()
\* or getCurrent() first, then any calls; other: a call has failed, or an
\* observer was first called after an advance()
NextMode(op, r) ==
    IF r.thrown # NoError THEN "other"
    ELSE IF op = "advance"
         THEN (IF mode = "fresh" THEN "advanceOnly" ELSE mode)
         ELSE (IF mode \in {"fresh", "readFirst"} THEN "readFirst" ELSE "other")

NextInvalidated(r) ==
    IF invalidated # "no" THEN "earlier"
    ELSE IF r.thrown = "CursorInvalidated" THEN "justNow" ELSE "no"

Return(op, r) ==
    /\ pos' = r.pos
    /\ dups' = r.dups
    /\ pCurrent' = r.pCurrent
    /\ surfaced' = r.surfaced
    /\ seen' = IF /\ r.thrown = NoError
                  /\ r.pCurrent # NULL
                  /\ (seen = <<>> \/ seen[Len(seen)] # r.pCurrent)
               THEN Append(seen, r.pCurrent) ELSE seen
    /\ lastCall' = [op |-> op, status |-> r.thrown,
                    retBool |-> (r.thrown = NoError /\ r.retBool),
                    retDoc |-> IF r.thrown = NoError THEN r.retDoc ELSE NULL,
                    yields |-> r.yields, steps |-> r.steps,
                    fetches |-> r.fetches, yieldFailed |-> r.yieldFailed]
    /\ mode' = NextMode(op, r)
    /\ invalidated' = NextInvalidated(r)
    /\ UNCHANGED <<scan, hasMatcher, interrupted, provenance, handles>>
    /\ UNCHANGED plannerVars
    /\ UNCHANGED trackerVars
    /\ UNCHANGED pathVars

FailAts == 0..Len(scan)

\* the constructor: pCursor(pTheCursor) and a new ClientCursor in
\* pClientCursor; nothing has been released
NewHandles ==
    [pClientCursor |-> TRUE, pCursor |-> TRUE, released |-> <<>>,
     object |-> "live"]

\* pCursor->ok() on a pCursor that releaseCursor() has reset: undefined
\* behaviour; the assertion of shared_ptr::operator-> or the call through
\* the null pointer ends the process
NullDereference ==
    /\ handles' = [handles EXCEPT !.object = "crashed"]
    /\ UNCHANGED <<scan, hasMatcher, pos, dups, pCurrent, interrupted,
                   surfaced, seen, lastCall, mode, invalidated, provenance>>
    /\ UNCHANGED plannerVars
    /\ UNCHANGED trackerVars
    /\ UNCHANGED pathVars

\* advance() reaches findNext() unless it is interrupted, eof() and
\* getCurrent() reach it when no document is current
Call(op, r) ==
    /\ handles.object = "live"
    /\ IF /\ ~handles.pCursor
          /\ IF op = "advance" THEN ~interrupted ELSE pCurrent = NULL
       THEN NullDereference
       ELSE Return(op, r)

Eof == \E failAt \in FailAts : \E r \in {eof(Enter(failAt))} : Call("eof", r)

Advance == \E failAt \in FailAts : \E r \in {advance(Enter(failAt))} : Call("advance", r)

GetCurrent == \E failAt \in FailAts : \E r \in {getCurrent(Enter(failAt))} : Call("getCurrent", r)

\* scoped_ptr::reset() and shared_ptr::reset(): the handle, if one is held,
\* is released; a null pointer is left as it is
reset(h, f) ==
    IF h[f] THEN [h EXCEPT ![f] = FALSE, !.released = Append(@, f)] ELSE h

\* mutant: the physical scan handle is released first
releaseCursor_ScanFirst(h) == reset(reset(h, "pCursor"), "pClientCursor")

releaseCursor(h) == reset(reset(h, "pClientCursor"), "pCursor")

\* the destructor has an empty body; the members are destroyed after it,
\* the registration before the scan handle
destructor(h) ==
    [reset(reset(h, "pClientCursor"), "pCursor") EXCEPT !.object = "destroyed"]

HandlesReturn(h) ==
    /\ handles.object = "live"
    /\ handles' = h
    /\ UNCHANGED <<scan, hasMatcher, pos, dups, pCurrent, interrupted,
                   surfaced, seen, lastCall, mode, invalidated, provenance>>
    /\ UNCHANGED plannerVars
    /\ UNCHANGED trackerVars
    /\ UNCHANGED pathVars

ReleaseCursor == \E h \in {releaseCursor(handles)} : HandlesReturn(h)

\* the last intrusive_ptr to the cursor goes away
Destroy == \E h \in {destructor(handles)} : HandlesReturn(h)

\* killOp and shutdown set the flag that checkForInterrupt reads
Interrupt ==
    /\ ~interrupted
    /\ interrupted' = TRUE
    /\ UNCHANGED <<scan, hasMatcher, pos, dups, pCurrent, surfaced, seen,
                   lastCall, mode, invalidated, provenance, handles>>
    /\ UNCHANGED plannerVars
    /\ UNCHANGED trackerVars
    /\ UNCHANGED pathVars

(***************************************************************************)
(* FieldPath                                                               *)
(***************************************************************************)
\* a string is a sequence of characters; a FieldPath is its vFieldName, a
\* sequence of strings
Dot == "."

\* string::find('.', startpos), positions counted from 1; 0 stands for npos
find(str, startpos) ==
    IF \E i \in startpos..Len(str) : str[i] = Dot
    THEN CHOOSE i \in startpos..Len(str) :
            str[i] = Dot /\ \A j \in startpos..(i - 1) : str[j] # Dot
    ELSE 0

RECURSIVE FieldPathLoop(_, _, _)
FieldPathLoop(str, startpos, v) ==
    LET dotpos == find(str, startpos)
    IN  IF dotpos = 0
        THEN [thrown |-> NoError,
              vFieldName |-> Append(v, SubSeq(str, startpos, Len(str)))]
        ELSE IF dotpos - startpos = 0
             THEN [thrown |-> "InvalidPath", vFieldName |-> v]
             ELSE FieldPathLoop(str, dotpos + 1,
                                Append(v, SubSeq(str, startpos, dotpos - 1)))

\* FieldPath::FieldPath(const string &)
FieldPath(str) == FieldPathLoop(str, 1, <<>>)

RECURSIVE writeRest(_, _)
writeRest(v, i) ==
    IF i > Len(v) THEN <<>> ELSE <<Dot>> \o v[i] \o writeRest(v, i + 1)

\* mutant: the loop over the later elements is missing
writePath_FirstOnly(v, fieldPrefix) ==
    (IF fieldPrefix THEN <<"$">> ELSE <<>>) \o v[1]

\* FieldPath::writePath, on a path with a first element
writePath(v, fieldPrefix) ==
    (IF fieldPrefix THEN <<"$">> ELSE <<>>) \o v[1] \o writeRest(v, 2)

\* FieldPath::getPath
getPath(v, fieldPrefix) == writePath(v, fieldPrefix)

\* FieldPath::FieldPath(const vector<string> &, size_t)
FieldPathPrefix(rStrings, n) ==
    IF ~(n <= Len(rStrings))
    THEN [thrown |-> "VerifyFailed", vFieldName |-> <<>>]
    ELSE [thrown |-> NoError, vFieldName |-> [i \in 1..n |-> rStrings[i]]]

\* FieldPath::FieldPath()
FieldPathDefault == [thrown |-> NoError, vFieldName |-> <<>>]

\* FieldPath::FieldPath(const FieldPath &)
FieldPathCopy(rOther) == [thrown |-> NoError, vFieldName |-> rOther]

\* the loop of operator==: no difference in the elements i..cmpLen
RECURSIVE equalsLoop(_, _, _, _)
equalsLoop(l, r, i, cmpLen) ==
    IF i > cmpLen THEN TRUE
    ELSE IF l[i] # r[i] THEN FALSE
    ELSE equalsLoop(l, r, i + 1, cmpLen)

\* mutant: the lengths are not compared
equals_NoLengthCheck(l, r) ==
    LET lLen == Len(l)
        rLen == Len(r)
        cmpLen == IF lLen <= rLen THEN lLen ELSE rLen
    IN  equalsLoop(l, r, 1, cmpLen)

\* FieldPath::operator==
equals(l, r) ==
    LET lLen == Len(l)
        rLen == Len(r)
        cmpLen == IF lLen <= rLen THEN lLen ELSE rLen
    IN  IF ~equalsLoop(l, r, 1, cmpLen) THEN FALSE
        ELSE IF lLen # rLen THEN FALSE
        ELSE TRUE

\* mutant: the test is made the other way round
isPrefixOf_Swapped(v, rOther) ==
    LET preLength == Len(v)
    IN  IF preLength > Len(rOther) THEN FALSE
        ELSE equalsLoop(rOther, v, 1, preLength)

\* FieldPath::isPrefixOf
isPrefixOf(v, rOther) ==
    LET preLength == Len(rOther)
    IN  IF preLength > Len(v) THEN FALSE
        ELSE equalsLoop(v, rOther, 1, preLength)

\* size_t arithmetic, kept to the low HashBits bits
HashMod == 2 ^ HashBits

RECURSIVE xor(_, _, _)
xor(a, b, bits) ==
    IF bits = 0 THEN 0
    ELSE (((a % 2) + (b % 2)) % 2) + (2 * xor(a \div 2, b \div 2, bits - 1))

\* the low bits of 0x9e3779b9 and of the seed 0xf0afbeef
Golden == ((40503 % (2 ^ (HashBits - 16))) * 65536) + 31161
HashSeed == ((61615 % (2 ^ (HashBits - 16))) * 65536) + 48879

\* boost::hash_combine on a value whose hash is h
boostCombine(seed, h) ==
    xor(seed,
        (h + Golden + ((seed * 64) % HashMod) + (seed \div 4)) % HashMod,
        HashBits)

Ord(ch) ==
    CASE ch = "a" -> 97 [] ch = "b" -> 98 [] ch = "." -> 46 [] OTHER -> 36

\* boost::hash_value of a string: hash_range over its characters
RECURSIVE hashRange(_, _, _)
hashRange(seed, str, i) ==
    IF i > Len(str) THEN seed
    ELSE hashRange(boostCombine(seed, Ord(str[i])), str, i + 1)

RECURSIVE hashLoop(_, _, _)
hashLoop(v, seed, i) ==
    IF i > Len(v) THEN seed
    ELSE hashLoop(v, boostCombine(seed, hashRange(0, v[i], 1)), i + 1)

\* FieldPath::hash_combine
hash_combine(v, seed) == hashLoop(v, seed, 1)

\* DependencyTracker::Tracker::Hash::operator()
Hash(v) == hash_combine(v, HashSeed)

(***************************************************************************)
(* Calls on a FieldPath                                                    *)
(***************************************************************************)
Alphabet == {"a", "b", Dot}
PathStrings == SeqsUpTo(Alphabet, MaxStr)

\* the segment lists of the paths made from strings
SegmentLists ==
    {FieldPath(str).vFieldName :
        str \in {x \in PathStrings : FieldPath(x).thrown = NoError}}

\* the FieldPath values the constructors make from these
Producible ==
    UNION {{FieldPathPrefix(v, n).vFieldName : n \in 0..Len(v)} :
              v \in SegmentLists}

NoPath == [made |-> FALSE, vFieldName |-> <<>>]

NoPathCall ==
    [op |-> "none", str |-> <<>>, other |-> <<>>, n |-> 0, flag |-> FALSE,
     thrown |-> NoError, out |-> <<>>, hash |-> 0]

InitPathIdle ==
    /\ fp = NoPath
    /\ lastPathCall = NoPathCall

\* a constructor that throws makes no object
Constructed(r, call) ==
    /\ fp' = IF r.thrown = NoError
             THEN [made |-> TRUE, vFieldName |-> r.vFieldName] ELSE fp
    /\ lastPathCall' = [call EXCEPT !.thrown = r.thrown]
    /\ UNCHANGED cursorVars
    /\ UNCHANGED plannerVars
    /\ UNCHANGED trackerVars

ConstructFromString ==
    \E str \in PathStrings :
        Constructed(FieldPath(str),
                    [NoPathCall EXCEPT !.op = "FieldPath(string)", !.str = str])

ConstructPrefix ==
    \E rStrings \in SegmentLists, n \in 0..(MaxStr + 1) :
        /\ n <= Len(rStrings) + 1
        /\ Constructed(FieldPathPrefix(rStrings, n),
                       [NoPathCall EXCEPT !.op = "FieldPath(vector, n)",
                                          !.other = rStrings, !.n = n])

ConstructDefault ==
    Constructed(FieldPathDefault, [NoPathCall EXCEPT !.op = "FieldPath()"])

ConstructCopy ==
    \E rOther \in Producible :
        Constructed(FieldPathCopy(rOther),
                    [NoPathCall EXCEPT !.op = "FieldPath(FieldPath)",
                                       !.other = rOther])

\* a const method: the object stays as it is
Observed(call) ==
    /\ fp.made
    /\ lastPathCall' = call
    /\ UNCHANGED fp
    /\ UNCHANGED cursorVars
    /\ UNCHANGED plannerVars
    /\ UNCHANGED trackerVars

Equals ==
    \E rR \in Producible :
        Observed([NoPathCall EXCEPT !.op = "operator==", !.other = rR,
                                    !.flag = equals(fp.vFieldName, rR)])

IsPrefixOf ==
    \E rOther \in Producible :
        Observed([NoPathCall EXCEPT !.op = "isPrefixOf", !.other = rOther,
                                    !.flag = isPrefixOf(fp.vFieldName, rOther)])

HashPath ==
    Observed([NoPathCall EXCEPT !.op = "Hash", !.hash = Hash(fp.vFieldName)])

\* vFieldName[0] of an empty vector is read out of bounds: the call may
\* crash or write any string in its place
GetPath ==
    \E fieldPrefix \in BOOLEAN :
        IF Len(fp.vFieldName) = 0
        THEN \E garbage \in {<<>>, <<"a">>}, crash \in BOOLEAN :
                Observed([NoPathCall EXCEPT !.op = "getPath",
                            !.flag = fieldPrefix,
                            !.thrown = IF crash THEN "Crash"
                                       ELSE "OutOfBoundsRead",
                            !.out = IF crash THEN <<>>
                                    ELSE (IF fieldPrefix THEN <<"$">>
                                          ELSE <<>>) \o garbage])
        ELSE Observed([NoPathCall EXCEPT !.op = "getPath",
                          !.flag = fieldPrefix,
                          !.out = getPath(fp.vFieldName, fieldPrefix)])

(***************************************************************************)
(* DependencyTracker                                                       *)
(***************************************************************************)
NewTracker == [openSet |-> TRUE, map |-> <<>>]

\* mutant: map.insert alone, the source of an entry that exists is kept
addDependency_KeepFirst(t, path, src) ==
    [t EXCEPT !.map = [f \in (DOMAIN t.map) \cup {path} |->
                          IF f \in DOMAIN t.map THEN t.map[f] ELSE src]]

addDependency(t, path, src) ==
    [t EXCEPT !.map = [f \in (DOMAIN t.map) \cup {path} |->
                          IF f = path THEN src ELSE t.map[f]]]

\* mutant: map.clear() in place of map.erase(rFieldPath)
removeDependency_Clear(t, path) == [t EXCEPT !.map = <<>>]

removeDependency(t, path) ==
    [t EXCEPT !.map = [f \in (DOMAIN t.map) \ {path} |-> t.map[f]]]

\* the source recorded for the path; 0 stands for the NULL pointer
getDependency(t, path) == IF path \in DOMAIN t.map THEN t.map[path] ELSE 0

\* mutant: the flag is flipped
setClosedSet_Toggle(t) == [t EXCEPT !.openSet = ~t.openSet]

setClosedSet(t) == [t EXCEPT !.openSet = FALSE]

isClosedSet(t) == ~t.openSet

\* the entries of the map in the order the iteration visits them
RECURSIVE mapOrder(_)
mapOrder(m) ==
    IF DOMAIN m = {} THEN <<>>
    ELSE LET f == CHOOSE x \in DOMAIN m : TRUE
         IN  <<f>> \o mapOrder([g \in (DOMAIN m) \ {f} |-> m[g]])

\* mutant: the verify is missing, an open set is listed as well
buildSelectList_NoVerify(t) ==
    [thrown |-> NoError,
     keys |-> [i \in 1..Len(mapOrder(t.map)) |->
                  writePath(mapOrder(t.map)[i], FALSE)]]

\* the keys appended to the builder, or the failed verify
buildSelectList(t) ==
    IF t.openSet THEN [thrown |-> "VerifyFailed", keys |-> <<>>]
    ELSE [thrown |-> NoError,
          keys |-> [i \in 1..Len(mapOrder(t.map)) |->
                       writePath(mapOrder(t.map)[i], FALSE)]]

\* mutant: the two stages change places in the message
reportUnsatisfied_SwapStages(p, path, needs, excludes) ==
    [p EXCEPT !.thrown = "UnsatisfiedDependency",
              !.error = [path |-> writePath(path, TRUE), needs |-> excludes,
                         excludes |-> needs]]

\* uassert 15984: always throws, with the message of the three arguments
reportUnsatisfied(p, path, needs, excludes) ==
    [p EXCEPT !.thrown = "UnsatisfiedDependency",
              !.error = [path |-> writePath(path, TRUE), needs |-> needs,
                         excludes |-> excludes]]

\* the loop ends in the throw of its first round
reportFirstUnsatisfied(p, t, excludes) ==
    IF DOMAIN t.map = {} THEN p
    ELSE LET f == mapOrder(t.map)[1]
         IN  reportUnsatisfied(p, f, t.map[f], excludes)

RECURSIVE addAll(_, _, _)
addAll(t, paths, src) ==
    IF paths = {} THEN t
    ELSE LET f == CHOOSE x \in paths : TRUE
         IN  addAll(addDependency(t, f, src), paths \ {f}, src)

RECURSIVE removeAll(_, _)
removeAll(t, paths) ==
    IF paths = {} THEN t
    ELSE LET f == CHOOSE x \in paths : TRUE
         IN  removeAll(removeDependency(t, f), paths \ {f})

(***************************************************************************)
(* Calls on a DependencyTracker                                            *)
(***************************************************************************)
TrackerKeys == {<<"a">>, <<"b">>, <<"a", ".", "b">>}
TrackerPaths == {FieldPath(k).vFieldName : k \in TrackerKeys}
Sources == 1..MaxSource

\* no message: nothing was thrown
NoErrorInfo == [path |-> <<>>, needs |-> 0, excludes |-> 0]

NoTrackerCall ==
    [op |-> "none", path |-> <<>>, src |-> 0, result |-> 0, flag |-> FALSE,
     thrown |-> NoError, keys |-> <<>>, excludes |-> 0,
     error |-> NoErrorInfo, filter |-> <<>>]

InitTrackerIdle ==
    /\ tracker = NewTracker
    /\ trackerLog = <<>>
    /\ lastTrackerCall = NoTrackerCall

AddDependency ==
    /\ Len(trackerLog) < MaxOps
    /\ \E path \in TrackerPaths, src \in Sources :
          /\ tracker' = addDependency(tracker, path, src)
          /\ trackerLog' = Append(trackerLog,
                [op |-> "addDependency", path |-> path, src |-> src])
          /\ lastTrackerCall' = [NoTrackerCall EXCEPT !.op = "addDependency",
                                    !.path = path, !.src = src]
    /\ UNCHANGED cursorVars
    /\ UNCHANGED plannerVars
    /\ UNCHANGED pathVars

RemoveDependency ==
    /\ Len(trackerLog) < MaxOps
    /\ \E path \in TrackerPaths :
          /\ tracker' = removeDependency(tracker, path)
          /\ trackerLog' = Append(trackerLog,
                [op |-> "removeDependency", path |-> path, src |-> 0])
          /\ lastTrackerCall' = [NoTrackerCall EXCEPT !.op = "removeDependency",
                                    !.path = path]
    /\ UNCHANGED cursorVars
    /\ UNCHANGED plannerVars
    /\ UNCHANGED pathVars

GetDependency ==
    /\ \E path \in TrackerPaths :
          lastTrackerCall' = [NoTrackerCall EXCEPT !.op = "getDependency",
                                 !.path = path,
                                 !.result = getDependency(tracker, path)]
    /\ UNCHANGED <<tracker, trackerLog>>
    /\ UNCHANGED cursorVars
    /\ UNCHANGED plannerVars
    /\ UNCHANGED pathVars

SetClosedSet ==
    /\ Len(trackerLog) < MaxOps
    /\ tracker' = setClosedSet(tracker)
    /\ trackerLog' = Append(trackerLog,
          [op |-> "setClosedSet", path |-> <<>>, src |-> 0])
    /\ lastTrackerCall' = [NoTrackerCall EXCEPT !.op = "setClosedSet"]
    /\ UNCHANGED cursorVars
    /\ UNCHANGED plannerVars
    /\ UNCHANGED pathVars

IsClosedSet ==
    /\ lastTrackerCall' = [NoTrackerCall EXCEPT !.op = "isClosedSet",
                              !.flag = isClosedSet(tracker)]
    /\ UNCHANGED <<tracker, trackerLog>>
    /\ UNCHANGED cursorVars
    /\ UNCHANGED plannerVars
    /\ UNCHANGED pathVars

BuildSelectList ==
    /\ LET r == buildSelectList(tracker)
       IN  lastTrackerCall' = [NoTrackerCall EXCEPT !.op = "buildSelectList",
                                  !.thrown = r.thrown, !.keys = r.keys]
    /\ UNCHANGED <<tracker, trackerLog>>
    /\ UNCHANGED cursorVars
    /\ UNCHANGED plannerVars
    /\ UNCHANGED pathVars

\* the frame of a call that may throw
NoThrow == [thrown |-> NoError, error |-> NoErrorInfo]

ReportUnsatisfied ==
    /\ \E path \in TrackerPaths, needs \in Sources, excludes \in Sources :
          LET r == reportUnsatisfied(NoThrow, path, needs, excludes)
          IN  lastTrackerCall' =
                 [NoTrackerCall EXCEPT !.op = "reportUnsatisfied",
                     !.path = path, !.src = needs, !.excludes = excludes,
                     !.thrown = r.thrown, !.error = r.error]
    /\ UNCHANGED <<tracker, trackerLog>>
    /\ UNCHANGED cursorVars
    /\ UNCHANGED plannerVars
    /\ UNCHANGED pathVars

ReportFirstUnsatisfied ==
    /\ \E excludes \in Sources :
          LET r == reportFirstUnsatisfied(NoThrow, tracker, excludes)
          IN  lastTrackerCall' =
                 [NoTrackerCall EXCEPT !.op = "reportFirstUnsatisfied",
                     !.excludes = excludes,
                     !.thrown = r.thrown, !.error = r.error]
    /\ UNCHANGED <<tracker, trackerLog>>
    /\ UNCHANGED cursorVars
    /\ UNCHANGED plannerVars
    /\ UNCHANGED pathVars

(***************************************************************************)
(* DocumentSourceMatch: the dependencies of a filter                       *)
(***************************************************************************)
\* a BSONObj is the sequence of its elements; an element has a field name,
\* a type and, for an Object or an Array, the elements of its Obj()
OrKey == <<"$", "o", "r">>
AndKey == <<"$", "a", "n", "d">>

El(name, type, value) == [fieldName |-> name, type |-> type, value |-> value]
Num(name) == El(name, "NumberInt", <<>>)
Gt(name) == El(name, "Object", <<Num(<<"$", "g", "t">>)>>)
\* an array: its elements are named "0", "1", ...
Arr(name, objs) ==
    El(name, "Array",
       [i \in DOMAIN objs |-> El(<<"0">>, "Object", objs[i])])

KeyA == <<"a">>
KeyB == <<"b">>
KeyAB == <<"a", ".", "b">>

\* the filters given to a $match
Filters ==
    { <<>>,
      <<Num(KeyA)>>,
      <<Gt(KeyA)>>,
      <<Num(KeyAB), Gt(KeyB)>>,
      <<Arr(KeyA, <<(<<Num(KeyB)>>)>>)>>,
      <<El(KeyB, "Object", <<Arr(OrKey, <<(<<Num(KeyA)>>)>>)>>)>>,
      <<Arr(OrKey, <<(<<Num(KeyA)>>), (<<Num(KeyB)>>)>>)>>,
      <<Num(KeyB), Arr(AndKey, <<(<<Gt(KeyA)>>)>>)>>,
      <<Arr(AndKey, <<(<<Num(KeyA)>>),
                      (<<Arr(OrKey, <<(<<Num(KeyB)>>), (<<Gt(KeyAB)>>)>>)>>)>>)>>,
      <<Arr(OrKey, <<(<<Arr(AndKey,
                            <<(<<Arr(OrKey, <<(<<Gt(KeyAB)>>)>>)>>)>>)>>)>>)>>,
      <<Num(KeyA), Num(<<".", "b">>)>>,
      <<Arr(OrKey, <<(<<Num(KeyB)>>), (<<Num(<<"a", ".", ".", "b">>)>>)>>)>> }

\* the sink of the visit: DocumentSourceMatch::Tracker with the tracker it
\* writes to, the exception in flight and the addDependency calls made
Sink(t, src) == [tracker |-> t, pSource |-> src, thrown |-> NoError,
                 calls |-> <<>>]

\* DocumentSourceMatch::Tracker::dependency
dependency(s, path) ==
    LET fieldPath == FieldPath(path)
    IN  IF fieldPath.thrown # NoError
        THEN [s EXCEPT !.thrown = fieldPath.thrown]
        ELSE [s EXCEPT
                !.tracker = addDependency(s.tracker, fieldPath.vFieldName,
                                          s.pSource),
                !.calls = Append(s.calls,
                    [op |-> "addDependency", path |-> fieldPath.vFieldName,
                     src |-> s.pSource])]

RECURSIVE visitElements(_, _, _)
RECURSIVE visitOperands(_, _, _)

\* mutant: only the first operand of a $or or $and is visited
visitOperands_FirstOnly(s, operands, j) ==
    IF j > 1 \/ j > Len(operands) \/ s.thrown # NoError THEN s
    ELSE visitOperands(visitElements(s, operands[j].value, 1), operands, j + 1)

\* the inner loop: every operand object of the array is visited
visitOperands(s, operands, j) ==
    IF j > Len(operands) \/ s.thrown # NoError THEN s
    ELSE visitOperands(visitElements(s, operands[j].value, 1), operands, j + 1)

\* the outer loop, from element i of the object on
visitElements(s, obj, i) ==
    IF i > Len(obj) \/ s.thrown # NoError THEN s
    ELSE LET bsonElement == obj[i]
             pFieldName == bsonElement.fieldName
         IN  IF pFieldName # OrKey /\ pFieldName # AndKey
             THEN visitElements(dependency(s, pFieldName), obj, i + 1)
             ELSE IF bsonElement.type # "Array"
                  THEN [s EXCEPT !.thrown = "VerifyFailed"]
                  ELSE visitElements(visitOperands(s, bsonElement.value, 1),
                                     obj, i + 1)

visitDependencies(s, obj) == visitElements(s, obj, 1)

\* DocumentSourceMatch::manageDependencies of a $match with this query,
\* which is pipeline step src
matchManageDependencies(t, query, src) == visitDependencies(Sink(t, src), query)

ManageDependencies ==
    /\ Len(trackerLog) < MaxRegistered
    /\ \E query \in Filters, src \in Sources :
          LET r == matchManageDependencies(tracker, query, src)
          IN  /\ tracker' = r.tracker
              /\ trackerLog' = trackerLog \o r.calls
              /\ lastTrackerCall' =
                    [NoTrackerCall EXCEPT !.op = "manageDependencies",
                        !.src = src, !.filter = query, !.thrown = r.thrown]
    /\ UNCHANGED cursorVars
    /\ UNCHANGED plannerVars
    /\ UNCHANGED pathVars

(***************************************************************************)
(* Pipeline stages                                                         *)
(***************************************************************************)
StageKinds == {"match", "sort", "group", "limit"}

\* the keys of the specification of a stage of each kind (the fields it
\* refers to), and the fields a $group puts out
Reads(kind) ==
    CASE kind = "match" -> {<<"a", ".", "c">>}
      [] kind = "sort" -> {<<"b">>}
      [] kind = "group" -> {<<"a">>, <<"c">>}
      [] OTHER -> {}

Products(kind) == IF kind = "group" THEN {<<"b">>} ELSE {}

PathsOf(keys) == {FieldPath(k).vFieldName : k \in keys}

\* a pipeline: stage i carries its pipeline step i
Pipelines ==
    {[i \in DOMAIN ks |-> [kind |-> ks[i], step |-> i]] :
        ks \in SeqsUpTo(StageKinds, MaxStages)}

\* DocumentSource::manageDependencies of each kind of stage; the frame p
\* carries the tracker and the error thrown, if any
manageDependencies(p, stage) ==
    IF \E k \in Reads(stage.kind) \cup Products(stage.kind) :
          FieldPath(k).thrown # NoError
    THEN [p EXCEPT !.thrown = "InvalidPath"]
    ELSE
    CASE stage.kind = "match" ->
            [p EXCEPT !.tracker =
                addAll(p.tracker, PathsOf(Reads("match")), stage.step)]
      [] stage.kind = "sort" ->
            [p EXCEPT !.tracker =
                addAll(p.tracker, PathsOf(Reads("sort")), stage.step)]
      [] stage.kind = "group" ->
            LET t1 == removeAll(p.tracker, PathsOf(Products("group")))
                p1 == reportFirstUnsatisfied([p EXCEPT !.tracker = t1], t1,
                                             stage.step)
            IN  IF p1.thrown # NoError THEN p1
                ELSE [p1 EXCEPT !.tracker =
                        setClosedSet(addAll(t1, PathsOf(Reads("group")),
                                            stage.step))]
      [] OTHER -> p

(***************************************************************************)
(* PipelineD::prepareCursorSource                                          *)
(***************************************************************************)
Unset == [set |-> FALSE, fields |-> {}]
Obj(fields) == [set |-> TRUE, fields |-> fields]
NoSource == [made |-> FALSE, cursor |-> "null", registeredNs |-> "",
             ns |-> "", pQuery |-> Unset, pSelect |-> Unset, pSort |-> Unset,
             pDependencies |-> <<>>]

\* the database the pipeline runs in and pPipeline->getCollectionName()
DbName == "db"
CollectionName == "coll"

\* string fullName(dbName + "." + pPipeline->getCollectionName())
fullName(p) == p.dbName \o "." \o CollectionName

\* mutant: the last stage is erased instead of the first
eraseBegin_Back(sources) == SubSeq(sources, 1, Len(sources) - 1)

\* pSources->erase(pSources->begin())
eraseBegin(sources) == SubSeq(sources, 2, Len(sources))

\* the stages are visited from the last to the first; i is the next to visit
RECURSIVE analyzeDependencies(_, _)

\* mutant: the loop stops one stage early, the first stage is not visited
analyzeDependencies_SkipFirst(p, i) ==
    IF i <= 1 \/ p.thrown # NoError THEN p
    ELSE analyzeDependencies(
            manageDependencies([p EXCEPT !.visited = Append(p.visited, i)],
                               p.sources[i]),
            i - 1)

analyzeDependencies(p, i) ==
    IF i = 0 \/ p.thrown # NoError THEN p
    ELSE analyzeDependencies(
            manageDependencies([p EXCEPT !.visited = Append(p.visited, i)],
                               p.sources[i]),
            i - 1)

\* Pipeline::getInitialQuery: the first stage is a $match
getInitialQuery(sources) == Len(sources) > 0 /\ sources[1].kind = "match"

extractInitialMatch(p) ==
    IF p.thrown # NoError THEN p
    ELSE IF getInitialQuery(p.sources)
         THEN [p EXCEPT !.initQuery = TRUE,
                        !.pQueryObj = Obj(Reads("match")),
                        !.sources = eraseBegin(p.sources)]
         ELSE [p EXCEPT !.pQueryObj = Obj({})]

Range(q) == {q[i] : i \in DOMAIN q}

\* mutant: the select-list is built whether or not the set is closed
buildSelect_Always(p) ==
    IF p.thrown # NoError THEN p
    ELSE LET r == buildSelectList(p.tracker)
         IN  IF r.thrown # NoError
             THEN [p EXCEPT !.thrown = r.thrown, !.selectBuilt = TRUE]
             ELSE [p EXCEPT !.pSelectObj = Obj(Range(r.keys)),
                            !.selectBuilt = TRUE]

buildSelect(p) ==
    IF p.thrown # NoError THEN p
    ELSE IF isClosedSet(p.tracker)
         THEN LET r == buildSelectList(p.tracker)
              IN  IF r.thrown # NoError
                  THEN [p EXCEPT !.thrown = r.thrown, !.selectBuilt = TRUE]
                  ELSE [p EXCEPT !.pSelectObj = Obj(Range(r.keys)),
                                 !.selectBuilt = TRUE]
         ELSE [p EXCEPT !.pSelectObj = Obj({})]

\* mutant: a $sort anywhere in the list is taken, not only the first stage
lookForSort_Anywhere(p) ==
    IF p.thrown # NoError THEN p
    ELSE IF \E i \in DOMAIN p.sources : p.sources[i].kind = "sort"
         THEN [p EXCEPT !.pSort = TRUE, !.pSortObj = Obj(Reads("sort"))]
         ELSE [p EXCEPT !.pSortObj = Obj({})]

lookForSort(p) ==
    IF p.thrown # NoError THEN p
    ELSE IF Len(p.sources) > 0 /\ p.sources[1].kind = "sort"
         THEN [p EXCEPT !.pSort = TRUE, !.pSortObj = Obj(Reads("sort"))]
         ELSE [p EXCEPT !.pSortObj = Obj({})]

\* NamespaceDetailsTransient::getCursor: found is the answer of the storage
getCursor(p, sort, found) ==
    [p EXCEPT !.pCursor = IF ~found THEN "null"
                          ELSE IF sort.set THEN "sorted" ELSE "unsorted",
              !.acquisitions = Append(p.acquisitions,
                    [ns |-> fullName(p), query |-> p.pQueryObj, sort |-> sort,
                     found |-> found])]

\* mutant: the $sort is removed although no sorted cursor was found
trySortedCursor_AlwaysErase(p, sortedOk) ==
    IF p.thrown # NoError \/ ~p.pSort THEN p
    ELSE LET p1 == getCursor(p, p.pSortObj, sortedOk)
         IN  [p1 EXCEPT !.sources = eraseBegin(p1.sources),
                        !.initSort = (p1.pCursor # "null")]

trySortedCursor(p, sortedOk) ==
    IF p.thrown # NoError \/ ~p.pSort THEN p
    ELSE LET p1 == getCursor(p, p.pSortObj, sortedOk)
         IN  IF p1.pCursor # "null"
             THEN [p1 EXCEPT !.sources = eraseBegin(p1.sources),
                             !.initSort = TRUE]
             ELSE p1

\* mutant: no second attempt is made
tryUnsortedCursor_Never(p, unsortedOk) == p

tryUnsortedCursor(p, unsortedOk) ==
    IF p.thrown # NoError \/ p.pCursor # "null" THEN p
    ELSE getCursor(p, Unset, unsortedOk)

setNamespace(o, n) == [o EXCEPT !.ns = n]

setQuery(o, pBsonObj) == [o EXCEPT !.pQuery = pBsonObj]

\* mutant: the current document is dropped with the old projection
setSelect_ResetCurrent(o, pBsonObj) ==
    [o EXCEPT !.pSelect = pBsonObj, !.pCurrent = NULL]

setSelect(o, pBsonObj) == [o EXCEPT !.pSelect = pBsonObj]

setSort(o, pBsonObj) == [o EXCEPT !.pSort = pBsonObj]

keepAlive(o, pVoid) == [o EXCEPT !.pDependencies = Append(@, pVoid)]

\* DocumentSourceCursor::create: the constructor keeps the scan and makes
\* the ClientCursor for it under the name it is given
create(pCursor, n) ==
    [NoSource EXCEPT !.made = TRUE, !.cursor = pCursor, !.registeredNs = n]

\* mutant: setSort is called whether or not the sort was built in
wrapCursor_AlwaysSetSort(p) ==
    IF p.thrown # NoError THEN p
    ELSE IF p.pCursor = "null" THEN [p EXCEPT !.thrown = "VerifyFailed"]
    ELSE LET s0 == create(p.pCursor, p.dbName)
             s1 == setNamespace(s0, fullName(p))
             s2 == setQuery(s1, p.pQueryObj)
             s3 == setSelect(s2, p.pSelectObj)
             s4 == setSort(s3, p.pSortObj)
         IN  [p EXCEPT !.pSource = keepAlive(s4, "pParsedQuery")]

\* mutant: the parsed query is not handed to the cursor
wrapCursor_NoKeepAlive(p) ==
    IF p.thrown # NoError THEN p
    ELSE IF p.pCursor = "null" THEN [p EXCEPT !.thrown = "VerifyFailed"]
    ELSE LET s0 == create(p.pCursor, p.dbName)
             s1 == setNamespace(s0, fullName(p))
             s2 == setQuery(s1, p.pQueryObj)
             s3 == setSelect(s2, p.pSelectObj)
         IN  [p EXCEPT !.pSource =
                 IF p.initSort THEN setSort(s3, p.pSortObj) ELSE s3]

\* DocumentSourceCursor::create, whose verify fails on a null scan, and
\* the setters called on its result
wrapCursor(p) ==
    IF p.thrown # NoError THEN p
    ELSE IF p.pCursor = "null" THEN [p EXCEPT !.thrown = "VerifyFailed"]
    ELSE LET s0 == create(p.pCursor, p.dbName)
             s1 == setNamespace(s0, fullName(p))
             s2 == setQuery(s1, p.pQueryObj)
             s3 == setSelect(s2, p.pSelectObj)
             s4 == IF p.initSort THEN setSort(s3, p.pSortObj) ELSE s3
         IN  [p EXCEPT !.pSource = keepAlive(s4, "pParsedQuery")]

PlanFrame(sources) ==
    [sources |-> sources, input |-> sources, dbName |-> DbName,
     tracker |-> NewTracker,
     visited |-> <<>>, thrown |-> NoError, error |-> NoErrorInfo,
     selectBuilt |-> FALSE, initQuery |-> FALSE,
     pQueryObj |-> Unset, pSelectObj |-> Unset, pSort |-> FALSE,
     pSortObj |-> Unset, pCursor |-> "null", initSort |-> FALSE,
     acquisitions |-> <<>>, pSource |-> NoSource, done |-> FALSE]

\* mutant: the initial $match is removed before the dependencies are analyzed
prepareCursorSource_AnalyzeLate(sources, sortedOk, unsortedOk) ==
    LET p0 == PlanFrame(sources)
        p1 == extractInitialMatch(p0)
        p2 == analyzeDependencies(p1, Len(p1.sources))
        p3 == buildSelect(p2)
        p4 == lookForSort(p3)
        p5 == trySortedCursor(p4, sortedOk)
        p6 == tryUnsortedCursor(p5, unsortedOk)
        p7 == wrapCursor(p6)
    IN  [p7 EXCEPT !.done = TRUE]

prepareCursorSource(sources, sortedOk, unsortedOk) ==
    LET p0 == PlanFrame(sources)
        p1 == analyzeDependencies(p0, Len(sources))
        p2 == extractInitialMatch(p1)
        p3 == buildSelect(p2)
        p4 == lookForSort(p3)
        p5 == trySortedCursor(p4, sortedOk)
        p6 == tryUnsortedCursor(p5, unsortedOk)
        p7 == wrapCursor(p6)
    IN  [p7 EXCEPT !.done = TRUE]

PrepareCursorSource ==
    /\ ~plan.done
    /\ \E sortedOk, unsortedOk \in BOOLEAN :
          LET r == prepareCursorSource(pSources, sortedOk, unsortedOk)
          IN  /\ pSources' = r.sources
              /\ plan' = r
              /\ provenance' = IF r.pSource.made
                               THEN [f \in DOMAIN provenance |-> r.pSource[f]]
                               ELSE provenance
    /\ UNCHANGED <<scan, hasMatcher, pos, dups, pCurrent, interrupted,
                   surfaced, seen, lastCall, mode, invalidated, handles>>
    /\ UNCHANGED trackerVars
    /\ UNCHANGED pathVars

(***************************************************************************)
(* DocumentSourceCursor as a pipeline stage: setSource and the setters     *)
(***************************************************************************)
\* the fields of a new DocumentSourceCursor that the constructor leaves empty
NoProvenance ==
    [ns |-> "", pQuery |-> Unset, pSelect |-> Unset, pSort |-> Unset,
     pDependencies |-> <<>>]

\* the object: the fields of the iteration and those of the provenance
This ==
    [pos |-> pos, dups |-> dups, pCurrent |-> pCurrent,
     ns |-> provenance.ns, pQuery |-> provenance.pQuery,
     pSelect |-> provenance.pSelect, pSort |-> provenance.pSort,
     pDependencies |-> provenance.pDependencies, thrown |-> NoError]

\* mutant: the source is taken and the iteration starts again
setSource_Restart(o, pSource) == [o EXCEPT !.pCurrent = NULL, !.pos = 1]

\* verify(false)
setSource(o, pSource) == [o EXCEPT !.thrown = "VerifyFailed"]

\* the arguments of the calls
Namespaces == {"db.coll"}
BsonObjs == {Obj({<<"a">>})}
Handles == {"handle"}
UpstreamSources == 0..1

\* the return of a call that is no call of the iteration
StageReturn(op, r) ==
    /\ handles.object = "live"
    /\ pos' = r.pos
    /\ dups' = r.dups
    /\ pCurrent' = r.pCurrent
    /\ provenance' = [ns |-> r.ns, pQuery |-> r.pQuery, pSelect |-> r.pSelect,
                      pSort |-> r.pSort, pDependencies |-> r.pDependencies]
    /\ lastCall' = [NoCall EXCEPT !.op = op, !.status = r.thrown]
    /\ UNCHANGED <<scan, hasMatcher, interrupted, surfaced, seen, mode,
                   invalidated, handles>>
    /\ UNCHANGED plannerVars
    /\ UNCHANGED trackerVars
    /\ UNCHANGED pathVars

SetSource ==
    \E pSource \in UpstreamSources :
        StageReturn("setSource", setSource(This, pSource))

SetNamespace ==
    \E n \in Namespaces : StageReturn("setNamespace", setNamespace(This, n))

SetQuery ==
    \E pBsonObj \in BsonObjs : StageReturn("setQuery", setQuery(This, pBsonObj))

SetSelect ==
    \E pBsonObj \in BsonObjs :
        StageReturn("setSelect", setSelect(This, pBsonObj))

SetSort ==
    \E pBsonObj \in BsonObjs : StageReturn("setSort", setSort(This, pBsonObj))

\* at most MaxKeep handles are added to those the planner has attached
KeepAlive ==
    /\ Len(provenance.pDependencies) <
          MaxKeep + Len(plan.pSource.pDependencies)
    /\ \E pVoid \in Handles : StageReturn("keepAlive", keepAlive(This, pVoid))

InitCursorIdle ==
    /\ scan = <<>>
    /\ hasMatcher = FALSE
    /\ pos = 1
    /\ dups = {}
    /\ pCurrent = NULL
    /\ interrupted = FALSE
    /\ surfaced = <<>>
    /\ seen = <<>>
    /\ lastCall = NoCall
    /\ mode = "fresh"
    /\ invalidated = "no"
    /\ provenance = NoProvenance
    /\ handles = NewHandles

InitPlanner ==
    /\ pSources \in Pipelines
    /\ plan = PlanFrame(pSources)
    /\ InitCursorIdle
    /\ InitTrackerIdle
    /\ InitPathIdle

NextPlanner == PrepareCursorSource

SpecPlanner == InitPlanner /\ [][NextPlanner]_vars

\* the planner and then the life of the cursor it has returned: the
\* iteration, further keepAlive calls and the teardown
NextPlanned ==
    \/ PrepareCursorSource
    \/ plan.pSource.made /\ Eof
    \/ plan.pSource.made /\ Advance
    \/ plan.pSource.made /\ GetCurrent
    \/ plan.pSource.made /\ KeepAlive
    \/ plan.pSource.made /\ ReleaseCursor
    \/ plan.pSource.made /\ Destroy

SpecPlanned == InitPlanner /\ [][NextPlanned]_vars

InitPlannerIdle ==
    /\ pSources = <<>>
    /\ plan = PlanFrame(<<>>)

InitTracker ==
    /\ InitTrackerIdle
    /\ InitCursorIdle
    /\ InitPlannerIdle
    /\ InitPathIdle

NextTracker ==
    \/ AddDependency
    \/ RemoveDependency
    \/ GetDependency
    \/ SetClosedSet
    \/ IsClosedSet
    \/ BuildSelectList

SpecTracker == InitTracker /\ [][NextTracker]_vars

\* the calls a $match makes on the tracker of a backward scan, and the
\* reports of a stage that finds a dependency it cannot satisfy
NextStages ==
    \/ ManageDependencies
    \/ ReportUnsatisfied
    \/ ReportFirstUnsatisfied

SpecStages == InitTracker /\ [][NextStages]_vars

InitCursor ==
    /\ scan \in Scans
    /\ hasMatcher \in BOOLEAN
    /\ pos = 1
    /\ dups = {}
    /\ pCurrent = NULL
    /\ interrupted = FALSE
    /\ surfaced = <<>>
    /\ seen = <<>>
    /\ lastCall = NoCall
    /\ mode = "fresh"
    /\ invalidated = "no"
    /\ provenance = NoProvenance
    /\ handles = NewHandles
    /\ InitPlannerIdle
    /\ InitTrackerIdle
    /\ InitPathIdle

InitFieldPath ==
    /\ InitPathIdle
    /\ InitCursorIdle
    /\ InitPlannerIdle
    /\ InitTrackerIdle

NextFieldPath ==
    \/ ConstructFromString
    \/ ConstructPrefix
    \/ ConstructDefault
    \/ ConstructCopy
    \/ Equals
    \/ IsPrefixOf
    \/ HashPath
    \/ GetPath

SpecFieldPath == InitFieldPath /\ [][NextFieldPath]_vars

NextCursor == Eof \/ Advance \/ GetCurrent \/ Interrupt

SpecCursor == InitCursor /\ [][NextCursor]_vars

\* the cursor with no interruption signalled and a consumer that keeps
\* calling advance(): an advance() that would change the state is not put
\* off forever
NextCursorLive == Eof \/ Advance \/ GetCurrent

SpecCursorLive == InitCursor /\ [][NextCursorLive]_vars /\ WF_vars(Advance)

\* the cursor the planner has made over the example scan, with the calls of
\* the iteration and those of the stage interface in any order
InitCursorStage ==
    /\ InitCursor
    /\ scan = ExampleScan

NextCursorStage ==
    \/ Eof
    \/ Advance
    \/ GetCurrent
    \/ Interrupt
    \/ SetSource
    \/ SetNamespace
    \/ SetQuery
    \/ SetSelect
    \/ SetSort
    \/ KeepAlive

SpecCursorStage == InitCursorStage /\ [][NextCursorStage]_vars

\* the iteration over the example scan with the release of the handles at
\* any point of it
NextTeardown ==
    \/ Eof
    \/ Advance
    \/ GetCurrent
    \/ ReleaseCursor
    \/ Destroy

SpecTeardown == InitCursorStage /\ [][NextTeardown]_vars

(***************************************************************************)
(* Properties of DocumentSourceCursor                                      *)
(***************************************************************************)
RidsOf(s) == [i \in DOMAIN s |-> s[i].rid]

NoDuplicates(s) == \A i, j \in DOMAIN s : i # j => s[i] # s[j]

IsPrefix(s, t) == Len(s) <= Len(t) /\ \A i \in DOMAIN s : s[i] = t[i]

Passes(q) == ~hasMatcher \/ scan[q].passes

\* position q passes the predicate and its record id is not in returned
Qualifies(q, returned) == Passes(q) /\ scan[q].rid \notin returned

RidsBefore(i) == {surfaced[j].rid : j \in 1..(i - 1)}

PosBefore(i) == IF i = 1 THEN 0 ELSE surfaced[i - 1].pos

\* q is the first position that passes the predicate with its record id
FirstPassing(q) ==
    Passes(q) /\ \A j \in 1..(q - 1) : Passes(j) => scan[j].rid # scan[q].rid

\* the documents a complete iteration has to deliver, in scan order
Expected ==
    LET idx == [i \in 1..Len(scan) |-> [rid |-> scan[i].rid, pos |-> i]]
    IN  SelectSeq(idx, LAMBDA d : FirstPassing(d.pos))

HasRevisit ==
    \E i, j \in DOMAIN scan : i < j /\ scan[i].rid = scan[j].rid
                              /\ Passes(i) /\ Passes(j)

Lifecycle(cur, p) ==
    IF cur # NULL THEN "Active"
    ELSE IF p <= Len(scan) THEN "NotStarted" ELSE "Exhausted"

Rank(cur, p) ==
    CASE Lifecycle(cur, p) = "NotStarted" -> 0
      [] Lifecycle(cur, p) = "Active" -> 1
      [] OTHER -> 2

\* a step that is a call of eof(), advance() or getCurrent()
CallStep == interrupted' = interrupted /\ vars' # vars

Observers == {"eof", "getCurrent"}

\* C1: over the lifetime of the cursor no record id is made the current
\* document more than once, also when the scan revisits a record.
C1_DedupGuard == NoDuplicates(RidsOf(surfaced))

C1_Witness ==
    /\ \E i, j \in DOMAIN scan : /\ i < j /\ j < pos
                                 /\ scan[i].rid = scan[j].rid
                                 /\ Passes(i) /\ Passes(j)
                                 /\ \E k \in DOMAIN surfaced : surfaced[k].pos = i
    /\ Len(surfaced) >= 2

\* C2: every fetch makes current the first position, at or after the
\* position the scan is at, that passes the predicate and whose record id was
\* not made current before: the documents come in scan order, each passes the
\* predicate, and no position left behind by the scan qualified when passed.
C2_FindNextResult ==
    /\ \A i \in DOMAIN surfaced :
          /\ surfaced[i].pos \in DOMAIN scan
          /\ surfaced[i].rid = scan[surfaced[i].pos].rid
          /\ surfaced[i].pos > PosBefore(i)
          /\ Qualifies(surfaced[i].pos, RidsBefore(i))
          /\ \A q \in (PosBefore(i) + 1)..(surfaced[i].pos - 1) :
                ~Qualifies(q, RidsBefore(i))
    /\ \A q \in (PosBefore(Len(surfaced) + 1) + 1)..(pos - 1) :
          ~Qualifies(q, RidsBefore(Len(surfaced) + 1))
    /\ pCurrent # NULL => (surfaced # <<>> /\ pCurrent = surfaced[Len(surfaced)])
    /\ pos \in 1..(Len(scan) + 1)

C2_Witness ==
    /\ hasMatcher
    /\ Len(surfaced) >= 2
    /\ \E q \in (surfaced[1].pos + 1)..(surfaced[2].pos - 1) : ~scan[q].passes
    /\ \E q \in (surfaced[1].pos + 1)..(surfaced[2].pos - 1) :
          scan[q].passes /\ scan[q].rid = surfaced[1].rid
    /\ lastCall.status = NoError

\* C3 as stated: a consumer that only ever calls advance() on a fresh cursor
\* sees every record that passes the predicate once, in scan order, from the
\* first one on, and has seen them all when the cursor is at its end.
C3_AdvanceOnlySeesAll ==
    (mode = "advanceOnly" /\ hasMatcher /\ HasRevisit) =>
        /\ IsPrefix(seen, Expected)
        /\ (pCurrent = NULL => seen = Expected)

\* C3 amended: a consumer that first reads the current document with eof()
\* or getCurrent() and from then on drives the cursor with advance() sees
\* every record that passes the predicate exactly once, in scan order, from
\* the first one on; every advance() delivers exactly one new document or
\* none, and it delivers none exactly when the last document of the scan was
\* current (or none was), after which eof() is true.
C3_StateOk ==
    mode = "readFirst" =>
        /\ IsPrefix(seen, Expected)
        /\ NoDuplicates(RidsOf(seen))
        /\ (pCurrent # NULL => (seen # <<>> /\ seen[Len(seen)] = pCurrent))
        /\ (pCurrent = NULL => seen = Expected)
        /\ (lastCall.op = "eof" => lastCall.retBool = (pCurrent = NULL))

C3_StepOk ==
    (mode' = "readFirst" /\ CallStep /\ lastCall'.op = "advance") =>
        /\ lastCall'.retBool = (pCurrent' # NULL)
        /\ lastCall'.retBool => seen' = Append(seen, pCurrent')
        /\ ~lastCall'.retBool => (seen' = seen /\ seen = Expected)
        /\ ~lastCall'.retBool <=>
              (pCurrent = NULL \/ pCurrent = Expected[Len(Expected)])

C3_ReadThenAdvanceSeesAll == []C3_StateOk /\ [][C3_StepOk]_vars

C3_Witness ==
    /\ scan = ExampleScan
    /\ hasMatcher
    /\ mode = "readFirst"
    /\ lastCall.op = "advance"
    /\ lastCall.status = NoError
    /\ ~lastCall.retBool
    /\ RidsOf(seen) = <<2, 4, 6>>

\* C4: a call in which a yield reported that the scan could not be
\* reacquired ends with CursorInvalidated; it never returns an answer (eof()
\* true, advance() false, getCurrent() none) in place of the error.
C4_YieldFailureIsAnError ==
    /\ lastCall.yieldFailed => lastCall.status = "CursorInvalidated"
    /\ lastCall.status = "CursorInvalidated" =>
          (lastCall.yieldFailed /\ lastCall.yields >= 1)

C4_Witness ==
    /\ lastCall.op = "advance"
    /\ lastCall.yieldFailed
    /\ lastCall.yields >= 2
    /\ lastCall.status = "CursorInvalidated"

\* C5 as stated: once a call has failed with CursorInvalidated, no later
\* eof(), getCurrent() or advance() returns normally.
C5_InvalidationIsFatal ==
    invalidated = "earlier" => lastCall.status # NoError

\* C6: with the interrupt flag set advance() fails with Interrupted before
\* any fetch: position, current document, dedup set and lifecycle state are
\* what they were, and no yield is made.  Only advance() is interrupted.
C6_StateOk ==
    lastCall.status = "Interrupted" =>
        /\ lastCall.op = "advance"
        /\ interrupted
        /\ lastCall.yields = 0 /\ lastCall.steps = 0 /\ lastCall.fetches = 0

C6_StepOk ==
    (interrupted /\ CallStep /\ lastCall'.op = "advance") =>
        /\ lastCall'.status = "Interrupted"
        /\ UNCHANGED <<pos, pCurrent, dups, surfaced, seen>>
        /\ Lifecycle(pCurrent', pos') = Lifecycle(pCurrent, pos)

C6_InterruptBeforeFetch == []C6_StateOk /\ [][C6_StepOk]_vars

C6_Witness ==
    /\ lastCall.status = "Interrupted"
    /\ pCurrent # NULL
    /\ pos <= Len(scan)

\* C7: the lifecycle never moves backward (NotStarted, Active, Exhausted),
\* and Exhausted is terminal: the scan is not stepped again, the current
\* document stays cleared, eof() answers true, getCurrent() none, and an
\* advance() that is not interrupted answers false.
C7_StateOk ==
    Lifecycle(pCurrent, pos) = "Exhausted" =>
        /\ (lastCall.op = "eof" /\ lastCall.status = NoError) => lastCall.retBool
        /\ (lastCall.op = "getCurrent" /\ lastCall.status = NoError) =>
              lastCall.retDoc = NULL
        /\ (lastCall.op = "advance" /\ lastCall.status = NoError) =>
              ~lastCall.retBool

C7_StepOk ==
    /\ Rank(pCurrent', pos') >= Rank(pCurrent, pos)
    /\ Lifecycle(pCurrent, pos) = "Exhausted" =>
          /\ UNCHANGED <<pos, pCurrent, dups, surfaced>>
          /\ CallStep =>
                /\ lastCall'.steps = 0 /\ lastCall'.yields = 0
                /\ lastCall'.status \in {NoError, "Interrupted"}
                /\ lastCall'.status = "Interrupted" =>
                      (interrupted /\ lastCall'.op = "advance")
                /\ (lastCall'.op = "advance" /\ ~interrupted) =>
                      lastCall'.status = NoError

C7_LifecycleForward == []C7_StateOk /\ [][C7_StepOk]_vars

C7_Witness ==
    /\ Lifecycle(pCurrent, pos) = "Exhausted"
    /\ Len(surfaced) >= 2
    /\ lastCall.op = "advance"
    /\ lastCall.fetches >= 2
    /\ lastCall.status = NoError

\* C8: eof() and getCurrent() step the scan only on a NotStarted cursor;
\* eof() answers true iff there is no current document and getCurrent()
\* answers the current document; on an Active or Exhausted cursor, and
\* whenever the call before was eof() or getCurrent() and returned, they
\* change neither position, dedup set nor current document, so the answer
\* repeats.
C8_StateOk ==
    (lastCall.op \in Observers /\ lastCall.status = NoError) =>
        /\ lastCall.op = "eof" => lastCall.retBool = (pCurrent = NULL)
        /\ lastCall.op = "getCurrent" => lastCall.retDoc = pCurrent
        /\ Lifecycle(pCurrent, pos) # "NotStarted"

C8_StepOk ==
    (CallStep /\ lastCall'.op \in Observers) =>
        /\ lastCall'.steps > 0 => Lifecycle(pCurrent, pos) = "NotStarted"
        /\ lastCall'.fetches > 0 => pCurrent = NULL
        /\ (\/ Lifecycle(pCurrent, pos) # "NotStarted"
            \/ (lastCall.op \in Observers /\ lastCall.status = NoError)) =>
              /\ lastCall'.status = NoError
              /\ UNCHANGED <<pos, dups, pCurrent, surfaced>>
              /\ lastCall'.steps = 0 /\ lastCall'.yields = 0
              /\ (lastCall'.op = "eof" => lastCall'.retBool = (pCurrent = NULL))
              /\ (lastCall'.op = "getCurrent" => lastCall'.retDoc = pCurrent)

C8_ObserversDoNotStep == []C8_StateOk /\ [][C8_StepOk]_vars

C8_Witness ==
    /\ lastCall.op = "getCurrent"
    /\ lastCall.status = NoError
    /\ lastCall.fetches = 0
    /\ pCurrent # NULL
    /\ pos <= Len(scan)

(***************************************************************************)
(* Properties of PipelineD::prepareCursorSource                            *)
(***************************************************************************)
Planned == plan.done /\ plan.thrown # "UnsatisfiedDependency"

FilterThenSort ==
    /\ Len(plan.input) >= 2
    /\ plan.input[1].kind = "match"
    /\ plan.input[2].kind = "sort"

\* the acquisition with filter and sort key, when one was made
SortedAttempts == {i \in DOMAIN plan.acquisitions : plan.acquisitions[i].sort.set}

\* C9: for a pipeline that starts with a filter and a sort: when the
\* acquisition with filter and sort key succeeds both stages are removed and
\* the cursor carries the sort specification; when it returns not-found only
\* the filter is removed, the sort is the first remaining stage and a cursor
\* that is returned carries no sort specification.
C9_FilterSortFusion ==
    (Planned /\ FilterThenSort) =>
        /\ plan.acquisitions # <<>>
        /\ plan.acquisitions[1].sort = Obj(Reads("sort"))
        /\ plan.acquisitions[1].query = Obj(Reads("match"))
        /\ plan.acquisitions[1].found =>
              /\ plan.thrown = NoError
              /\ pSources = SubSeq(plan.input, 3, Len(plan.input))
              /\ plan.pSource.made
              /\ plan.pSource.pSort = Obj(Reads("sort"))
              /\ plan.pSource.cursor = "sorted"
        /\ ~plan.acquisitions[1].found =>
              /\ pSources = SubSeq(plan.input, 2, Len(plan.input))
              /\ pSources[1] = plan.input[2]
              /\ plan.pSource.pSort = Unset
              /\ plan.pSource.made => plan.pSource.cursor = "unsorted"

C9_Witness ==
    /\ Planned /\ FilterThenSort
    /\ Len(plan.input) = 3
    /\ plan.input[3].kind = "group"
    /\ plan.acquisitions[1].found
    /\ pSources = <<plan.input[3]>>

C9_WitnessFallback ==
    /\ Planned /\ FilterThenSort
    /\ ~plan.acquisitions[1].found
    /\ plan.pSource.made

\* C10: whatever the pipeline and the answers of the scan acquisitions, the
\* stage list after planning is the input list without its first 0, 1 or 2
\* stages: nothing else is removed and the order of the rest is kept.
C10_SuffixOfInput ==
    plan.done =>
        \E k \in 0..2 : /\ k <= Len(plan.input)
                        /\ pSources = SubSeq(plan.input, k + 1, Len(plan.input))

C10_Witness ==
    /\ plan.done
    /\ Len(plan.input) = Len(pSources) + 2
    /\ Len(pSources) >= 1

DependencyErrors == {"UnsatisfiedDependency", "InvalidPath"}

InputHasMatch == Len(plan.input) > 0 /\ plan.input[1].kind = "match"

\* the input list without the initial $match
AfterExtraction ==
    IF InputHasMatch THEN SubSeq(plan.input, 2, Len(plan.input)) ELSE plan.input

ExtractedQuery == IF InputHasMatch THEN Obj(Reads("match")) ELSE Obj({})

SortedNotFound ==
    /\ plan.done
    /\ plan.acquisitions # <<>>
    /\ plan.acquisitions[1].sort.set
    /\ ~plan.acquisitions[1].found

\* C11: a sorted acquisition that returns not-found raises nothing: the stage
\* list stays as it was after the filter extraction, exactly one more
\* acquisition follows, with the same filter (the unconstrained one when no
\* filter was extracted) and no sort, and its scan is the one the cursor
\* wraps; the call fails only when that second acquisition finds nothing.
C11_SortedFailureFallsBack ==
    SortedNotFound =>
        /\ Len(plan.acquisitions) = 2
        /\ plan.acquisitions[1].query = ExtractedQuery
        /\ plan.acquisitions[2].query = ExtractedQuery
        /\ plan.acquisitions[2].sort = Unset
        /\ pSources = AfterExtraction
        /\ plan.acquisitions[2].found =>
              /\ plan.thrown = NoError
              /\ plan.pSource.made
              /\ plan.pSource.cursor = "unsorted"
        /\ ~plan.acquisitions[2].found => plan.thrown = "VerifyFailed"

C11_Witness ==
    /\ SortedNotFound
    /\ ~InputHasMatch
    /\ plan.acquisitions[2].found
    /\ plan.pSource.made
    /\ Len(pSources) >= 2

\* C12: when the dependency analysis of a stage fails, the call fails with
\* that error before any stage is removed and before any scan acquisition:
\* the stage list is the input list and no cursor is made.
C12_DependencyErrorLeavesPipeline ==
    (plan.done /\ plan.thrown \in DependencyErrors) =>
        /\ pSources = plan.input
        /\ plan.acquisitions = <<>>
        /\ ~plan.pSource.made
        /\ ~plan.initQuery
        /\ ~plan.selectBuilt
        /\ plan.thrown = "UnsatisfiedDependency" =>
              /\ plan.error.excludes \in DOMAIN plan.input
              /\ plan.input[plan.error.excludes].kind = "group"
              /\ plan.error.needs \in (plan.error.excludes + 1)..Len(plan.input)

C12_Witness ==
    /\ plan.done
    /\ plan.thrown = "UnsatisfiedDependency"
    /\ InputHasMatch
    /\ Len(plan.input) = 3
    /\ plan.input[2].kind = "group"
    /\ plan.error.needs = 3

\* C13 as stated: when the filter-only acquisition returns not-found the
\* call fails and the stage list is what it was on entry.
C13_AcquisitionFailureLeavesPipeline ==
    (plan.done /\ plan.acquisitions # <<>>
        /\ ~plan.acquisitions[Len(plan.acquisitions)].found) =>
        /\ plan.thrown # NoError
        /\ ~plan.pSource.made
        /\ pSources = plan.input

Descending(n) == [i \in 1..n |-> n + 1 - i]

\* C14: the dependency scan visits the stages of the input list once each,
\* from the last to the first (up to the stage whose analysis fails, if one
\* does), and is complete before a stage is removed: the fields of a filter
\* or sort that is built into the scan are tracked in the final set.
C14_BackwardScanFirst ==
    plan.done =>
        /\ IsPrefix(plan.visited, Descending(Len(plan.input)))
        /\ plan.thrown \notin DependencyErrors =>
              plan.visited = Descending(Len(plan.input))
        /\ plan.thrown \in DependencyErrors => plan.visited # <<>>
        /\ (plan.thrown \notin DependencyErrors /\ InputHasMatch) =>
              /\ Len(pSources) < Len(plan.input)
              /\ PathsOf(Reads("match")) \subseteq DOMAIN plan.tracker.map
        /\ plan.pSource.pSort.set =>
              PathsOf(Reads("sort")) \subseteq DOMAIN plan.tracker.map

C14_Witness ==
    /\ plan.done
    /\ plan.thrown = NoError
    /\ InputHasMatch
    /\ plan.pSource.pSort.set
    /\ Len(plan.input) = 3
    /\ pSources = <<plan.input[3]>>

TrackedKeys == {writePath(f, FALSE) : f \in DOMAIN plan.tracker.map}

\* C15 as stated: the cursor has a projection only if the dependency set is
\* closed, and then it is the set of tracked paths; no field set is asked of
\* an open tracker.
C15_ProjectionOnlyIfClosed ==
    (plan.done /\ plan.pSource.made) =>
        /\ plan.pSource.pSelect.set <=> isClosedSet(plan.tracker)
        /\ isClosedSet(plan.tracker) => plan.pSource.pSelect.fields = TrackedKeys
        /\ plan.selectBuilt => isClosedSet(plan.tracker)

\* C15 amended: the cursor always gets a projection object; it lists exactly
\* the tracked paths when the dependency set is closed after the backward
\* scan and is empty when the set is still open; the field set is asked of
\* the tracker exactly when it is closed, never of an open one.
C15_ProjectionListsClosedSet ==
    /\ (plan.done /\ plan.pSource.made) =>
          /\ plan.pSource.pSelect.set
          /\ isClosedSet(plan.tracker) =>
                plan.pSource.pSelect.fields = TrackedKeys
          /\ ~isClosedSet(plan.tracker) => plan.pSource.pSelect.fields = {}
    /\ plan.done =>
          /\ plan.selectBuilt => isClosedSet(plan.tracker)
          /\ plan.thrown # "VerifyFailed" \/ plan.acquisitions # <<>>
          /\ (isClosedSet(plan.tracker) /\ plan.thrown \notin DependencyErrors)
                => plan.selectBuilt

C15_Witness ==
    /\ plan.done
    /\ plan.pSource.made
    /\ isClosedSet(plan.tracker)
    /\ Cardinality(plan.pSource.pSelect.fields) = 3

\* C16: a sorted acquisition is made exactly when the first stage after the
\* filter extraction is a $sort, and it is the first acquisition; a stage
\* behind that position, a $sort included, is never removed; a $sort that is
\* the first stage of the input is tried with the unconstrained filter.
C16_SortOnlyWhenFirst ==
    Planned =>
        /\ SortedAttempts # {} <=>
              (AfterExtraction # <<>> /\ AfterExtraction[1].kind = "sort")
        /\ SortedAttempts \subseteq {1}
        /\ \A i \in 2..Len(AfterExtraction) :
              \E j \in DOMAIN pSources : pSources[j] = AfterExtraction[i]
        /\ (plan.input # <<>> /\ plan.input[1].kind = "sort") =>
              /\ plan.acquisitions[1].query = Obj({})
              /\ plan.acquisitions[1].sort = Obj(Reads("sort"))

C16_Witness ==
    /\ Planned
    /\ plan.thrown = NoError
    /\ Len(plan.input) = 3
    /\ plan.input[1].kind = "match"
    /\ plan.input[2].kind = "limit"
    /\ plan.input[3].kind = "sort"
    /\ SortedAttempts = {}
    /\ Len(pSources) = 2

SortedFound ==
    \E i \in DOMAIN plan.acquisitions :
        plan.acquisitions[i].sort.set /\ plan.acquisitions[i].found

SortRemoved ==
    /\ AfterExtraction # <<>>
    /\ AfterExtraction[1].kind = "sort"
    /\ pSources = SubSeq(AfterExtraction, 2, Len(AfterExtraction))

\* C17: in every outcome of the planning the sorted acquisition succeeded
\* iff the $sort was removed from the front of the list iff the cursor
\* carries the sort specification iff the cursor wraps the sorted scan.
C17_SortFactsCoincide ==
    plan.done =>
        /\ SortedFound <=> SortRemoved
        /\ SortedFound <=> plan.pSource.pSort.set
        /\ SortedFound <=> (plan.pSource.cursor = "sorted")
        /\ SortedFound <=> plan.initSort
        /\ plan.pSource.pSort.set => plan.pSource.pSort = Obj(Reads("sort"))

C17_Witness ==
    /\ plan.done
    /\ SortedFound
    /\ ~InputHasMatch
    /\ plan.pSource.pSort.set
    /\ Len(pSources) = 2

C17_WitnessUnsorted ==
    /\ plan.done
    /\ ~SortedFound
    /\ plan.pSource.made
    /\ AfterExtraction # <<>> /\ AfterExtraction[1].kind = "sort"

(***************************************************************************)
(* Properties of DependencyTracker                                         *)
(***************************************************************************)
\* the paths added and not removed since, from the history of the calls
AddedNotRemoved ==
    {f \in {trackerLog[k].path : k \in DOMAIN trackerLog} :
        \E i \in DOMAIN trackerLog :
            /\ trackerLog[i].op = "addDependency"
            /\ trackerLog[i].path = f
            /\ \A j \in (i + 1)..Len(trackerLog) :
                  ~(trackerLog[j].op = "removeDependency"
                      /\ trackerLog[j].path = f)}

\* the source given by the most recent addDependency of the path
LastAdded(f) ==
    LET adds == {i \in DOMAIN trackerLog :
                    trackerLog[i].op = "addDependency" /\ trackerLog[i].path = f}
        last == CHOOSE i \in adds : \A j \in adds : j <= i
    IN  trackerLog[last].src

\* C18: after any sequence of addDependency and removeDependency calls the
\* tracker holds exactly the paths added and not removed since, each with
\* the source of its most recent addDependency; a repeated add is no error;
\* getDependency answers that source, or NULL for a path not tracked.
C18_TrackerIsAMap ==
    /\ DOMAIN tracker.map = AddedNotRemoved
    /\ \A f \in AddedNotRemoved : tracker.map[f] = LastAdded(f)
    /\ lastTrackerCall.op \in {"addDependency", "removeDependency"} =>
          lastTrackerCall.thrown = NoError
    /\ lastTrackerCall.op = "getDependency" =>
          /\ lastTrackerCall.thrown = NoError
          /\ lastTrackerCall.result =
                (IF lastTrackerCall.path \in AddedNotRemoved
                 THEN LastAdded(lastTrackerCall.path) ELSE 0)

C18_Witness ==
    /\ Len(trackerLog) >= 2
    /\ trackerLog[1].op = "addDependency"
    /\ trackerLog[2].op = "addDependency"
    /\ trackerLog[1].path = trackerLog[2].path
    /\ trackerLog[1].src # trackerLog[2].src
    /\ lastTrackerCall.op = "getDependency"
    /\ lastTrackerCall.path = trackerLog[1].path
    /\ lastTrackerCall.result = trackerLog[2].src

ClosedCalls == {i \in DOMAIN trackerLog : trackerLog[i].op = "setClosedSet"}

\* C19: a tracker is open until setClosedSet is called and closed from then
\* on: a second setClosedSet changes nothing and no other call opens it.
C19_StateOk ==
    /\ tracker.openSet <=> ClosedCalls = {}
    /\ lastTrackerCall.op = "isClosedSet" =>
          lastTrackerCall.flag = (ClosedCalls # {})

C19_StepOk ==
    /\ ~tracker.openSet => ~tracker'.openSet
    /\ (~tracker.openSet /\ lastTrackerCall'.op = "setClosedSet") =>
          tracker' = tracker

C19_ClosedIsMonotonic == []C19_StateOk /\ [][C19_StepOk]_vars

C19_Witness ==
    /\ Len(trackerLog) = 3
    /\ trackerLog[1].op = "setClosedSet"
    /\ trackerLog[2].op = "setClosedSet"
    /\ trackerLog[3].op = "addDependency"
    /\ lastTrackerCall.op = "buildSelectList"
    /\ ~tracker.openSet

\* C20: buildSelectList fails its verify on an open tracker and on a closed
\* one answers the tracked paths, each once; it does not change the tracker.
C20_StateOk ==
    lastTrackerCall.op = "buildSelectList" =>
        /\ tracker.openSet =>
              /\ lastTrackerCall.thrown = "VerifyFailed"
              /\ lastTrackerCall.keys = <<>>
        /\ ~tracker.openSet =>
              /\ lastTrackerCall.thrown = NoError
              /\ Range(lastTrackerCall.keys) =
                    {writePath(f, FALSE) : f \in AddedNotRemoved}
              /\ Len(lastTrackerCall.keys) = Cardinality(AddedNotRemoved)
              /\ NoDuplicates(lastTrackerCall.keys)

C20_StepOk ==
    lastTrackerCall'.op = "buildSelectList" => UNCHANGED <<tracker, trackerLog>>

C20_BuildSelectList == []C20_StateOk /\ [][C20_StepOk]_vars

C20_Witness ==
    /\ lastTrackerCall.op = "buildSelectList"
    /\ lastTrackerCall.thrown = NoError
    /\ Len(lastTrackerCall.keys) = 2
    /\ <<"a", ".", "b">> \in Range(lastTrackerCall.keys)

C20_WitnessOpen ==
    /\ lastTrackerCall.op = "buildSelectList"
    /\ lastTrackerCall.thrown = "VerifyFailed"
    /\ DOMAIN tracker.map # {}

\* C21: frame of the calls that change a tracker.  removeDependency of a
\* path not tracked changes nothing; of a tracked path it removes that entry
\* and no other; addDependency changes the entry of its own path only;
\* neither changes openSet; setClosedSet changes no entry of the map.
C21_StepOk ==
    LET c == lastTrackerCall'
        others == (DOMAIN tracker.map) \ {c.path}
    IN  /\ (trackerLog' # trackerLog /\ c.op = "removeDependency") =>
              /\ c.path \notin DOMAIN tracker.map => tracker' = tracker
              /\ DOMAIN tracker'.map = others
              /\ \A f \in others : tracker'.map[f] = tracker.map[f]
              /\ tracker'.openSet = tracker.openSet
        /\ (trackerLog' # trackerLog /\ c.op = "addDependency") =>
              /\ DOMAIN tracker'.map = (DOMAIN tracker.map) \cup {c.path}
              /\ \A f \in others : tracker'.map[f] = tracker.map[f]
              /\ tracker'.openSet = tracker.openSet
        /\ (trackerLog' # trackerLog /\ c.op = "setClosedSet") =>
              tracker'.map = tracker.map

C21_TrackerFrame == [][C21_StepOk]_vars

\* a tracked path was removed while another one stayed, and a path that was
\* not tracked was removed from a tracker that holds an entry
C21_Witness ==
    /\ Len(trackerLog) = 3
    /\ trackerLog[1].op = "addDependency"
    /\ trackerLog[2].op = "addDependency"
    /\ trackerLog[1].path # trackerLog[2].path
    /\ trackerLog[3].op = "removeDependency"
    /\ trackerLog[3].path = trackerLog[1].path
    /\ DOMAIN tracker.map = {trackerLog[2].path}

C21_WitnessAbsent ==
    /\ Len(trackerLog) = 2
    /\ trackerLog[1].op = "addDependency"
    /\ trackerLog[2].op = "removeDependency"
    /\ trackerLog[1].path # trackerLog[2].path
    /\ DOMAIN tracker.map = {trackerLog[1].path}

\* C22: reportUnsatisfied always throws UnsatisfiedDependency, with the path
\* (rendered with the field prefix), the stage that needs it and the stage
\* that excludes it; reportFirstUnsatisfied throws it for one tracked path
\* and the source recorded for it whenever the map is not empty; neither
\* changes the tracker.
C22_StateOk ==
    LET c == lastTrackerCall
    IN  /\ c.op = "reportUnsatisfied" =>
              /\ c.thrown = "UnsatisfiedDependency"
              /\ c.error = [path |-> <<"$">> \o writePath(c.path, FALSE),
                            needs |-> c.src, excludes |-> c.excludes]
        /\ (c.op = "reportFirstUnsatisfied" /\ DOMAIN tracker.map # {}) =>
              /\ c.thrown = "UnsatisfiedDependency"
              /\ \E f \in DOMAIN tracker.map :
                    c.error = [path |-> <<"$">> \o writePath(f, FALSE),
                               needs |-> tracker.map[f],
                               excludes |-> c.excludes]

C22_StepOk ==
    lastTrackerCall'.op \in {"reportUnsatisfied", "reportFirstUnsatisfied"} =>
        UNCHANGED <<tracker, trackerLog>>

C22_ReportUnsatisfied == []C22_StateOk /\ [][C22_StepOk]_vars

C22_Witness ==
    /\ lastTrackerCall.op = "reportFirstUnsatisfied"
    /\ lastTrackerCall.thrown = "UnsatisfiedDependency"
    /\ Cardinality(DOMAIN tracker.map) = 2
    /\ lastTrackerCall.error.needs # lastTrackerCall.excludes

C22_WitnessDirect ==
    /\ lastTrackerCall.op = "reportUnsatisfied"
    /\ lastTrackerCall.src # lastTrackerCall.excludes
    /\ lastTrackerCall.error.path = <<"$", "a", ".", "b">>

(***************************************************************************)
(* Properties of DocumentSourceMatch                                       *)
(***************************************************************************)
GroupingKeys == {OrKey, AndKey}

\* the keys of a filter that name fields: those of the top level and of
\* every clause of a grouping key's array, the grouping keys left out
RECURSIVE FieldKeysOf(_)
FieldKeysOf(obj) ==
    UNION { IF obj[i].fieldName \in GroupingKeys
            THEN UNION {FieldKeysOf(obj[i].value[j].value) :
                           j \in DOMAIN obj[i].value}
            ELSE {obj[i].fieldName} : i \in DOMAIN obj }

\* every key that lies anywhere inside the filter
RECURSIVE AllKeysOf(_)
AllKeysOf(obj) ==
    UNION { {obj[i].fieldName} \cup AllKeysOf(obj[i].value) : i \in DOMAIN obj }

WellFormed(keys) == \A k \in keys : FieldPath(k).thrown = NoError

\* the addDependency calls of the step, from the history of the calls
Registered == SubSeq(trackerLog', Len(trackerLog) + 1, Len(trackerLog'))

\* C23: manageDependencies of a $match registers exactly the keys of its
\* filter that are not $or or $and, at the top level and in every clause
\* nested in $or and $and arrays, each against the stage itself; $or, $and
\* and keys inside the value of a field are not registered.  A key that is
\* no path ends the visit with InvalidPath.
C23_StepOk ==
    LET c == lastTrackerCall'
        keys == FieldKeysOf(c.filter)
        regs == Registered
        regKeys == {writePath(regs[i].path, FALSE) : i \in DOMAIN regs}
    IN  c.op = "manageDependencies" =>
          /\ \A i \in DOMAIN regs :
                regs[i].op = "addDependency" /\ regs[i].src = c.src
          /\ regKeys \subseteq keys
          /\ regKeys \cap GroupingKeys = {}
          /\ DOMAIN tracker'.map =
                (DOMAIN tracker.map) \cup {regs[i].path : i \in DOMAIN regs}
          /\ \A i \in DOMAIN regs : tracker'.map[regs[i].path] = c.src
          /\ IF WellFormed(keys)
             THEN c.thrown = NoError /\ regKeys = keys
             ELSE c.thrown = "InvalidPath"

C23_MatchDependencies == [][C23_StepOk]_vars

\* a filter with a $or nested in a $and, with an operator inside a value:
\* a, b and a.b are tracked for the stage and nothing else
C23_Witness ==
    /\ lastTrackerCall.op = "manageDependencies"
    /\ lastTrackerCall.thrown = NoError
    /\ Len(lastTrackerCall.filter) = 1
    /\ lastTrackerCall.filter[1].fieldName = AndKey
    /\ AllKeysOf(lastTrackerCall.filter) # FieldKeysOf(lastTrackerCall.filter)
    /\ Len(trackerLog) = 3
    /\ DOMAIN tracker.map = {<<(<<"a">>)>>, <<(<<"b">>)>>, <<(<<"a">>), (<<"b">>)>>}
    /\ \A f \in DOMAIN tracker.map : tracker.map[f] = lastTrackerCall.src

(***************************************************************************)
(* Properties of FieldPath                                                 *)
(***************************************************************************)
\* a dotted string one of whose segments is empty: the empty string, a dot
\* at either end, or two dots in a row
HasEmptySegment(str) ==
    \/ str = <<>>
    \/ str[1] = Dot
    \/ str[Len(str)] = Dot
    \/ \E i \in 1..(Len(str) - 1) : str[i] = Dot /\ str[i + 1] = Dot

\* C24: FieldPath(string) throws InvalidPath for every string with an empty
\* segment (leading dot, two dots in a row, trailing dot, empty string).
C24_EmptySegmentIsInvalidPath ==
    (lastPathCall.op = "FieldPath(string)"
        /\ HasEmptySegment(lastPathCall.str)) =>
            lastPathCall.thrown = "InvalidPath"

\* C25: a FieldPath made from a string without an empty segment renders as
\* that string without the prefix, and as "$" and that string with it.
C25_StepOk ==
    (/\ lastPathCall.op = "FieldPath(string)"
     /\ ~HasEmptySegment(lastPathCall.str)
     /\ lastPathCall'.op = "getPath") =>
        /\ lastPathCall.thrown = NoError
        /\ lastPathCall'.thrown = NoError
        /\ lastPathCall'.out =
              (IF lastPathCall'.flag THEN <<"$">> ELSE <<>>) \o lastPathCall.str

C25_RoundTrip == [][C25_StepOk]_vars

C25_Witness ==
    /\ lastPathCall.op = "getPath"
    /\ fp.vFieldName = <<(<<"a">>), (<<"b">>)>>
    /\ ~lastPathCall.flag
    /\ lastPathCall.out = <<"a", ".", "b">>

C25_WitnessPrefix ==
    /\ lastPathCall.op = "getPath"
    /\ lastPathCall.flag
    /\ lastPathCall.out = <<"$", "b", ".", "a">>

\* C26: self.isPrefixOf(other) is true iff other has no more segments than
\* self and each segment of other equals the segment of self at its index.
C26_IsPrefixOf ==
    lastPathCall.op = "isPrefixOf" =>
        lastPathCall.flag =
            (/\ Len(lastPathCall.other) <= Len(fp.vFieldName)
             /\ \A i \in 1..Len(lastPathCall.other) :
                   lastPathCall.other[i] = fp.vFieldName[i])

\* a proper prefix is found; the longer path is no prefix of the shorter
C26_Witness ==
    /\ lastPathCall.op = "isPrefixOf"
    /\ lastPathCall.flag
    /\ Len(lastPathCall.other) = 1
    /\ Len(fp.vFieldName) = 2

C26_WitnessLonger ==
    /\ lastPathCall.op = "isPrefixOf"
    /\ ~lastPathCall.flag
    /\ Len(fp.vFieldName) = 1
    /\ Len(lastPathCall.other) = 2
    /\ lastPathCall.other[1] = fp.vFieldName[1]

\* C27: operator== is true iff the two paths have the same number of
\* segments and equal segments at every index; equal paths hash alike from
\* the same seed.
C27_Equality ==
    lastPathCall.op = "operator==" =>
        /\ lastPathCall.flag =
              (/\ Len(lastPathCall.other) = Len(fp.vFieldName)
               /\ \A i \in 1..Len(lastPathCall.other) :
                     lastPathCall.other[i] = fp.vFieldName[i])
        /\ lastPathCall.flag =>
              /\ Hash(fp.vFieldName) = Hash(lastPathCall.other)
              /\ hash_combine(fp.vFieldName, 0) =
                    hash_combine(lastPathCall.other, 0)

C27_Witness ==
    /\ lastPathCall.op = "operator=="
    /\ lastPathCall.flag
    /\ Len(fp.vFieldName) = 2

\* a proper prefix and a permutation are not equal to the path
C27_WitnessPrefix ==
    /\ lastPathCall.op = "operator=="
    /\ ~lastPathCall.flag
    /\ fp.vFieldName = <<(<<"a">>), (<<"b">>)>>
    /\ lastPathCall.other = <<(<<"a">>)>>

C27_WitnessPermuted ==
    /\ lastPathCall.op = "operator=="
    /\ ~lastPathCall.flag
    /\ fp.vFieldName = <<(<<"a">>), (<<"b">>)>>
    /\ lastPathCall.other = <<(<<"b">>), (<<"a">>)>>

\* C28: every FieldPath a constructor makes is a non-empty sequence of
\* non-empty segments, so that rendering it reads a first segment that is
\* there.
C28_PathsAreNonEmpty ==
    /\ fp.made =>
          /\ Len(fp.vFieldName) > 0
          /\ \A i \in 1..Len(fp.vFieldName) : fp.vFieldName[i] # <<>>
    /\ lastPathCall.op = "getPath" => lastPathCall.thrown = NoError

(***************************************************************************)
(* Properties of DocumentSourceCursor as a pipeline stage                  *)
(***************************************************************************)
\* C29: setSource fails its verify whatever source it is given and whatever
\* the cursor's lifecycle state is, and leaves the iteration as it was.
C29_StateOk == lastCall.op = "setSource" => lastCall.status = "VerifyFailed"

C29_StepOk ==
    lastCall'.op = "setSource" =>
        UNCHANGED <<scan, pos, dups, pCurrent, surfaced, seen, provenance>>

C29_SetSourceAlwaysFails == []C29_StateOk /\ [][C29_StepOk]_vars

C29_Witness ==
    /\ lastCall.op = "setSource"
    /\ Lifecycle(pCurrent, pos) = "Active"
    /\ Len(surfaced) = 2

C29_WitnessNotStarted ==
    /\ lastCall.op = "setSource"
    /\ Lifecycle(pCurrent, pos) = "NotStarted"

C29_WitnessExhausted ==
    /\ lastCall.op = "setSource"
    /\ Lifecycle(pCurrent, pos) = "Exhausted"

Setters == {"setNamespace", "setQuery", "setSelect", "setSort", "keepAlive"}

\* the field of the provenance that a setter writes
Written(op) ==
    CASE op = "setNamespace" -> {"ns"}
      [] op = "setQuery" -> {"pQuery"}
      [] op = "setSelect" -> {"pSelect"}
      [] op = "setSort" -> {"pSort"}
      [] op = "keepAlive" -> {"pDependencies"}
      [] OTHER -> {}

\* C30: setNamespace, setQuery, setSelect, setSort and keepAlive write their
\* own field of the provenance (keepAlive appends to the retained handles)
\* and nothing else, at any point of the cursor's life: position, current
\* document, dedup set and lifecycle state stay, and the documents surfaced
\* are those of the scan, as without these calls.
C30_StateOk ==
    /\ IsPrefix(surfaced, Expected)
    /\ mode = "readFirst" =>
          /\ IsPrefix(seen, Expected)
          /\ pCurrent = NULL => seen = Expected
    /\ lastCall.op \in Setters => lastCall.status = NoError

C30_StepOk ==
    lastCall'.op \in Setters =>
        /\ UNCHANGED <<scan, pos, dups, pCurrent, surfaced, seen, mode>>
        /\ Lifecycle(pCurrent', pos') = Lifecycle(pCurrent, pos)
        /\ \A f \in (DOMAIN provenance) \ Written(lastCall'.op) :
              provenance'[f] = provenance[f]
        /\ Len(provenance'.pDependencies) >= Len(provenance.pDependencies)

C30_SettersOnlySetProvenance == []C30_StateOk /\ [][C30_StepOk]_vars

\* a projection is set while a document is current and the iteration goes
\* on to its end afterwards, with every setter called
C30_Witness ==
    /\ provenance.ns = "db.coll"
    /\ provenance.pQuery.set
    /\ provenance.pSelect.set
    /\ provenance.pSort.set
    /\ Len(provenance.pDependencies) = 1
    /\ lastCall.op = "keepAlive"
    /\ Lifecycle(pCurrent, pos) = "Active"
    /\ Len(surfaced) = 2

C30_WitnessEnd ==
    /\ provenance.pSelect.set
    /\ mode = "readFirst"
    /\ pCurrent = NULL
    /\ seen = Expected
    /\ Len(seen) >= 3

(***************************************************************************)
(* Properties of the fetches of DocumentSourceCursor                       *)
(***************************************************************************)
\* the documents made during the step
Fetched == SubSeq(surfaced', Len(surfaced) + 1, Len(surfaced'))

\* C34: advance() on a cursor without a current document calls findNext
\* twice: the first document found is dropped and the second is current; on
\* a cursor with a current document it calls findNext once; it answers true
\* iff a document is current after it.  A consumer that only calls advance()
\* never sees the first qualifying record.
C34_StateOk ==
    (mode = "advanceOnly" /\ Expected # <<>>) =>
        /\ Expected[1] \notin {seen[i] : i \in DOMAIN seen}
        /\ surfaced # <<>> => surfaced[1] = Expected[1]

C34_StepOk ==
    (CallStep /\ lastCall'.op = "advance" /\ lastCall'.status = NoError) =>
        /\ lastCall'.fetches = (IF pCurrent = NULL THEN 2 ELSE 1)
        /\ lastCall'.retBool = (pCurrent' # NULL)
        /\ Len(Fetched) <= lastCall'.fetches
        /\ pCurrent' = (IF Len(Fetched) = lastCall'.fetches
                        THEN Fetched[Len(Fetched)] ELSE NULL)

C34_AdvanceFetches == []C34_StateOk /\ [][C34_StepOk]_vars

\* the first advance() of a cursor made two documents and shows the second
C34_Witness ==
    /\ mode = "advanceOnly"
    /\ lastCall.op = "advance"
    /\ lastCall.fetches = 2
    /\ lastCall.retBool
    /\ Len(surfaced) = 2
    /\ seen = <<surfaced[2]>>

C34_WitnessActive ==
    /\ mode = "advanceOnly"
    /\ lastCall.op = "advance"
    /\ lastCall.fetches = 1
    /\ Len(surfaced) = 3

\* the position the scan has just left is one whose document is due: it
\* passes the predicate and its record id was not met at a passing position
FailedAfterMaterialized == FirstPassing(pos' - 1)

\* C35: CursorInvalidated leaves the call whose yield failed, be it eof(),
\* getCurrent() or advance(), after a skipped position as after a position
\* whose document was made; in the latter case pCurrent is that new document
\* already when the error leaves the call.
C35_StepOk ==
    CallStep =>
        /\ lastCall'.yieldFailed <=> lastCall'.status = "CursorInvalidated"
        /\ lastCall'.yieldFailed =>
              /\ lastCall'.op \in {"eof", "getCurrent", "advance"}
              /\ lastCall'.yields >= 1
              /\ pos' = pos + lastCall'.yields
              /\ IF FailedAfterMaterialized
                 THEN /\ pCurrent' = [rid |-> scan[pos' - 1].rid, pos |-> pos' - 1]
                      /\ Fetched # <<>>
                      /\ pCurrent' = Fetched[Len(Fetched)]
                 ELSE pCurrent' = (IF Fetched = <<>> THEN pCurrent
                                  ELSE Fetched[Len(Fetched)])

C35_InvalidatedInTheCall == [][C35_StepOk]_vars

\* getCurrent() failed at the yield after the document it made
C35_Witness ==
    /\ lastCall.op = "getCurrent"
    /\ lastCall.status = "CursorInvalidated"
    /\ pCurrent # NULL
    /\ pCurrent.pos = pos - 1
    /\ Len(surfaced) = 1

\* eof() and advance() failed at the yield after a position they skipped
C35_WitnessSkippedEof ==
    /\ lastCall.op = "eof"
    /\ lastCall.status = "CursorInvalidated"
    /\ surfaced = <<>>
    /\ pos > 1

C35_WitnessSkippedAdvance ==
    /\ lastCall.op = "advance"
    /\ lastCall.status = "CursorInvalidated"
    /\ pCurrent # NULL
    /\ pCurrent.pos < pos - 1

\* C36: every step of the scan is followed by the call of yieldSometimes
\* before the next position is looked at, for a skipped position as for one
\* whose document was made; with a document current the scan stands behind
\* the position of that document.
C36_StateOk ==
    /\ lastCall.steps = lastCall.yields
    /\ pCurrent # NULL => pos > pCurrent.pos
    /\ pos <= Len(scan) + 1

C36_StepOk ==
    CallStep =>
        /\ pos' = pos + lastCall'.steps
        /\ lastCall'.steps >= Len(Fetched)
        /\ (lastCall'.status = NoError /\ pCurrent' # NULL /\ Fetched # <<>>) =>
              pos' = pCurrent'.pos + 1

C36_YieldAfterEveryStep == []C36_StateOk /\ [][C36_StepOk]_vars

\* a fetch that skipped two positions before the one of its document
C36_Witness ==
    /\ lastCall.status = NoError
    /\ lastCall.steps = 3
    /\ lastCall.yields = 3
    /\ pCurrent # NULL
    /\ pos = pCurrent.pos + 1

\* the record ids of the positions before pos that the predicate accepts
PassedBefore == {scan[j].rid : j \in {k \in 1..(pos - 1) : Passes(k)}}

\* C39: getsetdup is evaluated only at a position that the predicate
\* accepts: the dedup set holds the record ids of the accepted positions
\* visited.  A record rejected at one visit and accepted at a later one is
\* surfaced at the later one; a record surfaced once is not surfaced again.
C39_DedupAfterPredicate ==
    /\ dups = PassedBefore
    /\ {surfaced[i].rid : i \in DOMAIN surfaced} = dups
    /\ \A i \in DOMAIN surfaced :
          /\ FirstPassing(surfaced[i].pos)
          /\ \A j \in DOMAIN surfaced : j > i => surfaced[j].rid # surfaced[i].rid

\* a record rejected at position 1 and accepted at position 2 is surfaced
\* there, and not again at position 3
C39_Witness ==
    /\ hasMatcher
    /\ Len(scan) = 3
    /\ scan[1].rid = scan[2].rid
    /\ scan[3].rid = scan[2].rid
    /\ ~scan[1].passes
    /\ scan[2].passes
    /\ scan[3].passes
    /\ pos = 4
    /\ surfaced = <<[rid |-> scan[2].rid, pos |-> 2]>>

(***************************************************************************)
(* Properties of the teardown of DocumentSourceCursor                      *)
(***************************************************************************)
ReleaseOrder == <<"pClientCursor", "pCursor">>

\* the scan handle goes from held to released in this step
ReleasesScan == handles.pCursor /\ ~handles'.pCursor

\* C31: whenever the cursor releases its scan, by releaseCursor() or by its
\* destruction, the ClientCursor is released before the Cursor, whatever
\* the state of the iteration, and no handle is released twice.
C31_StateOk ==
    /\ handles.released \in {<<>>, ReleaseOrder}
    /\ handles.pClientCursor <=> handles.released = <<>>
    /\ handles.pCursor <=> handles.released = <<>>

C31_StepOk ==
    /\ ReleasesScan => handles'.released = ReleaseOrder
    /\ handles.released # <<>> => handles'.released = handles.released

C31_TeardownOrder == []C31_StateOk /\ [][C31_StepOk]_vars

\* releaseCursor() with a document current, then the destruction
C31_Witness ==
    /\ handles.released = ReleaseOrder
    /\ handles.object = "destroyed"
    /\ Lifecycle(pCurrent, pos) = "Active"

C31_WitnessNotStarted ==
    /\ handles.released = ReleaseOrder
    /\ handles.object = "live"
    /\ Lifecycle(pCurrent, pos) = "NotStarted"

C31_WitnessExhausted ==
    /\ handles.released = ReleaseOrder
    /\ Lifecycle(pCurrent, pos) = "Exhausted"
    /\ lastCall.op = "advance"

(***************************************************************************)
(* Termination of the iteration                                            *)
(***************************************************************************)
\* a reacquisition after a yield has failed
Failed == invalidated # "no"

ExhaustedByAdvance ==
    /\ lastCall.op = "advance"
    /\ lastCall.status = NoError
    /\ ~lastCall.retBool
    /\ Lifecycle(pCurrent, pos) = "Exhausted"

\* a call makes no more scan steps than positions are left, and on an
\* exhausted cursor eof() answers true, advance() false, with no step
C37_StepOk ==
    CallStep =>
        /\ lastCall'.steps <= Len(scan) + 1 - pos
        /\ pos' <= Len(scan) + 1
        /\ (Lifecycle(pCurrent, pos) = "Exhausted" /\ lastCall'.status = NoError) =>
              /\ Lifecycle(pCurrent', pos') = "Exhausted"
              /\ lastCall'.steps = 0
              /\ lastCall'.op = "eof" => lastCall'.retBool
              /\ lastCall'.op = "advance" => ~lastCall'.retBool

\* C37: over a finite scan, with no interruption and no failed
\* reacquisition, every call returns after at most as many scan steps as
\* positions are left, and a consumer that keeps calling advance() reaches
\* Exhausted: advance() returns false, and eof() returns true from then on.
C37_Termination ==
    /\ [][C37_StepOk]_vars
    /\ (<>Failed) \/ (<>ExhaustedByAdvance)

\* a scan of three positions with a revisit, run to its end by advance()
C37_Witness ==
    /\ ExhaustedByAdvance
    /\ ~Failed
    /\ Len(scan) >= 3
    /\ HasRevisit
    /\ Len(surfaced) >= 2

\* eof() on the exhausted cursor
C37_WitnessEof ==
    /\ lastCall.op = "eof"
    /\ lastCall.retBool
    /\ ~Failed
    /\ Len(surfaced) >= 2
    /\ mode = "advanceOnly" \/ mode = "other"

(***************************************************************************)
(* Properties of the documents handed out                                  *)
(***************************************************************************)
\* C32: the document getCurrent() hands out is the Document made last, and
\* no Document made is changed by a later call of the cursor, with its scan
\* steps and yields, the one that makes the next Document included: the
\* documents a consumer has seen stay among the documents made, as they were.
C32_StateOk ==
    /\ (lastCall.op = "getCurrent" /\ lastCall.retDoc # NULL) =>
          /\ surfaced # <<>>
          /\ lastCall.retDoc = surfaced[Len(surfaced)]
          /\ lastCall.retDoc = pCurrent
    /\ \A i \in DOMAIN seen : \E j \in DOMAIN surfaced : surfaced[j] = seen[i]

C32_StepOk ==
    /\ Len(surfaced') >= Len(surfaced)
    /\ \A i \in DOMAIN surfaced : surfaced'[i] = surfaced[i]

C32_SnapshotImmutable == []C32_StateOk /\ [][C32_StepOk]_vars

\* getCurrent() handed out the first document; a later advance() made the
\* second and the third
C32_Witness ==
    /\ mode = "readFirst"
    /\ lastCall.op = "advance"
    /\ lastCall.retBool
    /\ Len(surfaced) = 3
    /\ Len(seen) = 3
    /\ seen[1] = surfaced[1]
    /\ pCurrent = surfaced[3]

(***************************************************************************)
(* Properties of the cursor the planner returns                            *)
(***************************************************************************)
\* C38: the ClientCursor of the cursor the planner returns is made for the
\* full namespace, database name, dot, collection name: the name every
\* acquisition of the scan was made for and the name set as the cursor's
\* provenance.
C38_RegistrationNamespace ==
    (plan.done /\ plan.pSource.made) =>
        /\ plan.pSource.ns = DbName \o "." \o CollectionName
        /\ \A i \in DOMAIN plan.acquisitions :
              plan.acquisitions[i].ns = plan.pSource.ns
        /\ plan.pSource.registeredNs = plan.pSource.ns

\* the planner has returned a cursor
Returned == plan.pSource.made

\* the acquisition that gave the scan the cursor wraps
Acquired == plan.acquisitions[Len(plan.acquisitions)]

\* C33: as long as the returned cursor is not destroyed it holds the objects
\* its scan was acquired with: the filter and the projection always, the
\* sort key when the scan was acquired with one, and the parsed query as
\* its first keepAlive handle; keepAlive appends and no call of the
\* cursor's life removes a handle.
C33_StateOk ==
    (Returned /\ handles.object # "destroyed") =>
        /\ Acquired.found
        /\ provenance.pQuery = Acquired.query
        /\ provenance.pQuery.set
        /\ provenance.pSelect = plan.pSelectObj
        /\ provenance.pSelect.set
        /\ Acquired.sort.set => provenance.pSort = Acquired.sort
        /\ provenance.pDependencies # <<>>
        /\ provenance.pDependencies[1] = "pParsedQuery"

C33_StepOk ==
    Returned => IsPrefix(provenance.pDependencies, provenance'.pDependencies)

C33_SpecificationsRetained == []C33_StateOk /\ [][C33_StepOk]_vars

\* a cursor over a scan acquired with filter and sort, after a further
\* keepAlive and a call of the iteration
C33_Witness ==
    /\ Returned
    /\ Acquired.sort.set
    /\ provenance.pSort.set
    /\ provenance.pQuery.fields # {}
    /\ Len(provenance.pDependencies) = 2
    /\ lastCall.op = "advance"

\* a cursor over a scan acquired without the sort, which is not retained
C33_WitnessUnsorted ==
    /\ Returned
    /\ plan.pSort
    /\ ~Acquired.sort.set
    /\ ~provenance.pSort.set
    /\ Len(provenance.pDependencies) = 2

====
